---- MODULE Spec2Model ----
\* Verification model of the HelixLang core (aurorabiology/helix):
\*   - runtime/memory.py      reference-counted heap and local stack frames
\*   - core/symbols.py        symbol table with nested scopes
\*   - core/interpreter.py    tree-walking interpreter, environments, calls
\*   - core/runtime.py, runtime/runtime_env.py   call frames
\*   - core/validator.py      semantic validator
EXTENDS Integers, Sequences, FiniteSets, TLC

\* ---------------------------------------------------------------------
\* Bounds of the model
\* ---------------------------------------------------------------------
MaxAddr == 2       \* number of heap allocations explored
MaxIncRefs == 1    \* number of objects inc_ref is explored on (once each)
MaxFrames == 1     \* depth of MemoryManager.stack_frames explored
HeapSize == 12     \* heap_size passed to MemoryManager(heap_size=...)
MaxScopes == 3     \* depth of SymbolTable.scopes explored
MaxEnvs == 5       \* number of Environment objects the interpreter creates
MaxFuncs == 2      \* number of Function objects the interpreter creates
MaxCtrl == 3       \* nesting of active blocks, loops and calls in the interpreter
MaxCallStack == 3  \* frames pushed on Runtime.call_stack and RuntimeEnv.call_stack
MaxConfigured == 2 \* largest max_stack_depth written by Config.set
MaxErrors == 3     \* length of Validator.errors explored

VarNames == {"x", "y"}
Addrs == 1..MaxAddr

\* ---------------------------------------------------------------------
\* State
\* ---------------------------------------------------------------------
\* runtime/memory.py: MemoryManager
VARIABLES
    heap,                \* MemoryManager.heap: addr -> [value, ref_count]
    next_addr,           \* MemoryManager.next_addr
    stack_frames,        \* MemoryManager.stack_frames: list of dicts (insertion ordered)
    current_frame_vars,  \* MemoryManager.current_frame_vars: alias of the top frame, or a detached dict
    used_heap_size,      \* MemoryManager.used_heap_size
    mlast,               \* the last MemoryManager call and its outcome
    freed_count,         \* history: how often each address was removed from the heap
    inc_applied,         \* history: addresses inc_ref was applied to
    declared             \* history: per stack frame, the addresses its declarations allocated

memVars == <<heap, next_addr, stack_frames, current_frame_vars, used_heap_size,
             mlast, freed_count, inc_applied, declared>>

\* core/symbols.py: SymbolTable
VARIABLES
    scopes,          \* SymbolTable.scopes: list of Scope(level, symbols)
    current_level,   \* SymbolTable.current_level
    slast            \* the last SymbolTable call and its outcome

symVars == <<scopes, current_level, slast>>

\* core/interpreter.py: Interpreter, Function, Environment
VARIABLES
    envs,        \* the Environment objects created so far: id -> [values, parent]
    env,         \* Interpreter.env: id of the current Environment, 0 for None
    funcs,       \* the Function objects created so far: id -> [nparams, closure]
    ctrl,        \* active visit_block / visit_for / Function.call executions, outermost first
    signal,      \* the exception in flight: "none", "return", "RuntimeError", "AttributeError"
    retval,      \* ReturnException.value of the return in flight
    host_fns,    \* Function objects returned to the caller of Function.call
    ilast,       \* the block, loop or call that has just been left, and how
    call_log     \* history: [fn, env] for every Function.call that bound its parameters

interpVars == <<envs, env, funcs, ctrl, signal, retval, host_fns, ilast, call_log>>

\* core/runtime.py: Runtime; runtime/runtime_env.py: RuntimeEnv;
\* core/config.py: Config
VARIABLES
    global_env,       \* Runtime.global_env.values
    call_stack,       \* Runtime.call_stack, oldest frame first
    env_call_stack,   \* RuntimeEnv.call_stack, the "<global>" frame first
    max_stack_depth,  \* Config._config['max_stack_depth']
    rlast             \* outcome of the last call on Runtime, RuntimeEnv or Config

runVars == <<global_env, call_stack, env_call_stack, max_stack_depth, rlast>>

\* core/validator.py: Validator. Validator.symbols is a SymbolTable: the
\* validator works on scopes and current_level above.
VARIABLES
    errors,                        \* Validator.errors: the class of each error
    current_function_return_type,  \* Validator.current_function_return_type
    vctl,                          \* program, blocks and functions being validated
    vlast                          \* outcome of the last statement validated

valVars == <<errors, current_function_return_type, vctl, vlast>>

\* cli/file_runner.py: run_file
VARIABLES
    pc,        \* the call run_file is in, "idle" before it, "returned"/"exit" after
    pfile,     \* the file being run: [isfile, ext, program]
    pdebug,    \* run_file's debug argument
    plog,      \* the calls run_file has started in this run, in order
    pout,      \* number of lines printed in this run
    pruns      \* number of runs started (watch_and_run runs the file again)

pipeVars == <<pc, pfile, pdebug, plog, pout, pruns>>

\* core/types.py: the operation last applied to a pair of types
VARIABLES
    tlast      \* [op, a, b, type, holds]: the call and what it returned

typVars == <<tlast>>

\* ir/ir_optimizer.py: IROptimizer; core/optimizer.py: Optimizer
VARIABLES
    ir_root,   \* IROptimizer.ir_root, NoNode before construction
    ast,       \* the AST handed to Optimizer and Interpreter, NoNode before
    oplog,     \* the passes applied to ir_root or ast so far
    olast      \* [op, before, after]: the last pass, its argument and result

optVars == <<ir_root, ast, oplog, olast>>

\* ir/ir_to_runtime.py: IRToRuntime
VARIABLES
    emit_root,   \* IRToRuntime.ir_root with the role it has in its program
    bytecode,    \* IRToRuntime.bytecode
    elast,       \* [op, raised]: the last call and the exception it raised
    instructions,  \* Compiler.instructions
    label_count    \* Compiler.label_count

emitVars == <<emit_root, bytecode, elast, instructions, label_count>>

\* core/tokenizer.py: Tokenizer; core/parser.py: Parser
VARIABLES
    lsource,     \* Tokenizer.source, a sequence of characters
    ltokens,     \* the list tokenize returned, which the Parser is built on
    llast        \* [op, raised, result]: the last call, what it raised or returned

lexVars == <<lsource, ltokens, llast>>

\* core/interpreter.py: Interpreter.interpret
VARIABLES
    xlast        \* [op, node, raised, message, received, value]: the last run

entryVars == <<xlast>>

\* core/runtime.py: Environment; runtime/runtime_env.py: Scope
VARIABLES
    objects,     \* the Environment and Scope objects, in order of creation
    clast        \* [op, obj, name]: the last call and the object it was made on

chainVars == <<objects, clast>>

compileVars == <<pipeVars, typVars, optVars, emitVars,
                lexVars, entryVars, chainVars>>
nonLexVars == <<memVars, symVars, interpVars, runVars, valVars, pipeVars, typVars,
               optVars, emitVars,
               entryVars,
               chainVars>>

vars == <<memVars, symVars, interpVars, runVars, valVars, compileVars>>

nonMemVars == <<symVars, interpVars, runVars, valVars, compileVars>>
nonSymVars == <<memVars, interpVars, runVars, valVars, compileVars>>
nonInterpVars == <<memVars, symVars, runVars, valVars, compileVars>>
nonRunVars == <<memVars, symVars, interpVars, valVars, compileVars>>
nonValVars == <<memVars, slast, interpVars, runVars, compileVars>>
nonPipeVars == <<memVars, symVars, interpVars, runVars, valVars, typVars, optVars, emitVars,
               lexVars,
               entryVars,
               chainVars>>
nonTypVars == <<memVars, symVars, interpVars, runVars, valVars, pipeVars, optVars, emitVars,
               lexVars,
               entryVars,
               chainVars>>
nonOptVars == <<memVars, symVars, interpVars, runVars, valVars, pipeVars, typVars,
               emitVars, lexVars,
               entryVars,
               chainVars>>
nonEmitVars == <<memVars, symVars, interpVars, runVars, valVars, pipeVars, typVars,
                optVars, lexVars,
               entryVars,
               chainVars>>
nonEntryVars == <<memVars, symVars, interpVars, runVars, valVars,
               pipeVars, typVars, optVars, emitVars, lexVars,
               chainVars>>
nonChainVars == <<memVars, symVars, interpVars, runVars, valVars,
               pipeVars, typVars, optVars, emitVars, lexVars, entryVars>>

\* ---------------------------------------------------------------------
\* Generic helpers
\* ---------------------------------------------------------------------
Last(s) == s[Len(s)]
Front(s) == SubSeq(s, 1, Len(s) - 1)
Restrict(f, S) == [k \in S |-> f[k]]
Remove(f, k) == Restrict(f, DOMAIN f \ {k})

\* ---------------------------------------------------------------------
\* runtime/memory.py
\* ---------------------------------------------------------------------
RuntimeValues == {"IntValue", "FloatValue"}

IntValueSize == 4
FloatValueSize == 8
size_in_bytes(v) == IF v = "IntValue" THEN IntValueSize ELSE FloatValueSize

MemoryObject(v) == [value |-> v, ref_count |-> 1]

is_unreferenced(obj) == obj.ref_count = 0

\* A Python dict that keeps insertion order: a sequence of [name, addr].
DictHas(d, n) == \E i \in 1..Len(d) : d[i].name = n
DictGet(d, n) == d[CHOOSE i \in 1..Len(d) : d[i].name = n].addr
DictSet(d, n, a) ==
    IF DictHas(d, n)
    THEN [i \in 1..Len(d) |-> IF d[i].name = n THEN [name |-> n, addr |-> a] ELSE d[i]]
    ELSE Append(d, [name |-> n, addr |-> a])

\* The dict current_frame_vars refers to.
CurVars ==
    IF current_frame_vars.top THEN Last(stack_frames) ELSE current_frame_vars.vars

AliasTop == [top |-> TRUE, vars |-> <<>>]
Detached(d) == [top |-> FALSE, vars |-> d]

MemOutcome(op, err, removed) ==
    [op |-> op, err |-> err, removed |-> removed, scope |-> {}]

MemInit ==
    /\ heap = <<>>
    /\ next_addr = 1
    /\ stack_frames = <<>>
    /\ current_frame_vars = Detached(<<>>)
    /\ used_heap_size = 0
    /\ mlast = MemOutcome("init", "none", {})
    /\ freed_count = [a \in Addrs |-> 0]
    /\ inc_applied = {}
    /\ declared = <<>>

\* deallocate without the still-referenced check.
DeallocateOn_NoRefCheck(h, u, a) ==
    IF a \notin DOMAIN h
    THEN [heap |-> h, used |-> u, err |-> "MemoryError", removed |-> {}]
    ELSE [heap |-> Remove(h, a), used |-> u - size_in_bytes(h[a].value),
          err |-> "none", removed |-> {a}]

\* MemoryManager.deallocate as a function of (heap, used): result record.
DeallocateOn(h, u, a) ==
    IF a \notin DOMAIN h
    THEN [heap |-> h, used |-> u, err |-> "MemoryError", removed |-> {}]
    ELSE IF ~is_unreferenced(h[a])
    THEN [heap |-> h, used |-> u, err |-> "MemoryError", removed |-> {}]
    ELSE [heap |-> Remove(h, a), used |-> u - size_in_bytes(h[a].value),
          err |-> "none", removed |-> {a}]

\* dec_ref that forgets to deallocate on reaching zero.
DecRefOn_NoFree(h, u, a) ==
    IF a \notin DOMAIN h
    THEN [heap |-> h, used |-> u, err |-> "MemoryError", removed |-> {}]
    ELSE [heap |-> [h EXCEPT ![a].ref_count = @ - 1], used |-> u,
          err |-> "none", removed |-> {}]

\* MemoryObject.dec_ref followed by the zero test of MemoryManager.dec_ref.
DecRefOn(h, u, a) ==
    IF a \notin DOMAIN h
    THEN [heap |-> h, used |-> u, err |-> "MemoryError", removed |-> {}]
    ELSE LET h1 == [h EXCEPT ![a].ref_count = @ - 1]
         IN  IF h1[a].ref_count < 0
             THEN [heap |-> h1, used |-> u, err |-> "MemoryError", removed |-> {}]
             ELSE IF is_unreferenced(h1[a])
             THEN DeallocateOn(h1, u, a)
             ELSE [heap |-> h1, used |-> u, err |-> "none", removed |-> {}]

\* The loop of pop_stack_frame: dec_ref every address of the frame in dict
\* order; the first MemoryError leaves the loop.
RECURSIVE ReleaseFrame(_, _, _, _, _)
ReleaseFrame(h, u, frame, i, removed) ==
    IF i > Len(frame)
    THEN [heap |-> h, used |-> u, err |-> "none", removed |-> removed]
    ELSE LET r == DecRefOn(h, u, frame[i].addr)
         IN  IF r.err # "none"
             THEN [heap |-> r.heap, used |-> r.used, err |-> r.err, removed |-> removed]
             ELSE ReleaseFrame(r.heap, r.used, frame, i + 1, removed \cup r.removed)

CountRemoved(removed) ==
    [a \in Addrs |-> IF a \in removed THEN freed_count[a] + 1 ELSE freed_count[a]]

allocate(v) ==
    /\ UNCHANGED nonMemVars
    /\ next_addr <= MaxAddr
    /\ IF used_heap_size + size_in_bytes(v) > HeapSize
       THEN /\ mlast' = MemOutcome("allocate", "MemoryError", {})
            /\ UNCHANGED <<heap, next_addr, used_heap_size>>
       ELSE /\ heap' = (next_addr :> MemoryObject(v)) @@ heap
            /\ next_addr' = next_addr + 1
            /\ used_heap_size' = used_heap_size + size_in_bytes(v)
            /\ mlast' = MemOutcome("allocate", "none", {})
    /\ UNCHANGED <<stack_frames, current_frame_vars, freed_count, inc_applied, declared>>

deallocate(a) ==
    /\ UNCHANGED nonMemVars
    /\ LET r == DeallocateOn(heap, used_heap_size, a)
       IN  /\ heap' = r.heap
           /\ used_heap_size' = r.used
           /\ freed_count' = CountRemoved(r.removed)
           /\ mlast' = MemOutcome("deallocate", r.err, r.removed)
           /\ UNCHANGED <<next_addr, stack_frames, current_frame_vars, inc_applied, declared>>

inc_ref(a) ==
    /\ UNCHANGED nonMemVars
    /\ a \in DOMAIN heap => (a \notin inc_applied /\ Cardinality(inc_applied) < MaxIncRefs)
    /\ IF a \notin DOMAIN heap
       THEN /\ mlast' = MemOutcome("inc_ref", "MemoryError", {})
            /\ UNCHANGED <<heap, inc_applied>>
       ELSE /\ heap' = [heap EXCEPT ![a].ref_count = @ + 1]
            /\ inc_applied' = inc_applied \cup {a}
            /\ mlast' = MemOutcome("inc_ref", "none", {})
    /\ UNCHANGED <<next_addr, stack_frames, current_frame_vars, used_heap_size,
                   freed_count, declared>>

dec_ref(a) ==
    /\ UNCHANGED nonMemVars
    /\ LET r == DecRefOn(heap, used_heap_size, a)
       IN  /\ heap' = r.heap
           /\ used_heap_size' = r.used
           /\ freed_count' = CountRemoved(r.removed)
           /\ mlast' = MemOutcome("dec_ref", r.err, r.removed)
           /\ UNCHANGED <<next_addr, stack_frames, current_frame_vars, inc_applied, declared>>

read(a) ==
    /\ UNCHANGED nonMemVars
    /\ mlast' = MemOutcome("read", IF a \notin DOMAIN heap THEN "MemoryError" ELSE "none", {})
    /\ UNCHANGED <<heap, next_addr, stack_frames, current_frame_vars, used_heap_size,
                   freed_count, inc_applied, declared>>

\* MemoryManager.write as a function of (heap, used).
WriteOn(h, u, a, v) ==
    IF a \notin DOMAIN h
    THEN [heap |-> h, used |-> u, err |-> "MemoryError"]
    ELSE [heap |-> [h EXCEPT ![a].value = v],
          used |-> u + (size_in_bytes(v) - size_in_bytes(h[a].value)),
          err |-> "none"]

write(a, v) ==
    /\ UNCHANGED nonMemVars
    /\ LET r == WriteOn(heap, used_heap_size, a, v)
       IN  /\ heap' = r.heap
           /\ used_heap_size' = r.used
           /\ mlast' = MemOutcome("write", r.err, {})
           /\ UNCHANGED <<next_addr, stack_frames, current_frame_vars,
                          freed_count, inc_applied, declared>>

push_stack_frame ==
    /\ UNCHANGED nonMemVars
    /\ Len(stack_frames) < MaxFrames
    /\ stack_frames' = Append(stack_frames, <<>>)
    /\ declared' = Append(declared, {})
    /\ current_frame_vars' = AliasTop
    /\ mlast' = MemOutcome("push_stack_frame", "none", {})
    /\ UNCHANGED <<heap, next_addr, used_heap_size, freed_count, inc_applied>>

pop_stack_frame ==
    /\ UNCHANGED nonMemVars
    /\ IF stack_frames = <<>>
       THEN /\ mlast' = MemOutcome("pop_stack_frame", "MemoryError", {})
            /\ UNCHANGED <<heap, next_addr, stack_frames, current_frame_vars, used_heap_size,
                           freed_count, inc_applied, declared>>
       ELSE LET frame == Last(stack_frames)
                r == ReleaseFrame(heap, used_heap_size, frame, 1, {})
            IN  /\ stack_frames' = Front(stack_frames)
                /\ declared' = Front(declared)
                /\ heap' = r.heap
                /\ used_heap_size' = r.used
                /\ freed_count' = CountRemoved(r.removed)
                /\ current_frame_vars' =
                       IF r.err # "none"
                       THEN Detached(CurVars)   \* the assignment after the loop is not reached
                       ELSE IF Front(stack_frames) # <<>> THEN AliasTop ELSE Detached(<<>>)
                /\ mlast' = [MemOutcome("pop_stack_frame", r.err, r.removed)
                               EXCEPT !.scope = Last(declared)]
                /\ UNCHANGED <<next_addr, inc_applied>>

declare_local_variable(n, v) ==
    /\ UNCHANGED nonMemVars
    /\ next_addr <= MaxAddr
    /\ IF used_heap_size + size_in_bytes(v) > HeapSize
       THEN /\ mlast' = MemOutcome("declare_local_variable", "MemoryError", {})
            /\ UNCHANGED <<heap, next_addr, used_heap_size, stack_frames,
                           current_frame_vars, declared>>
       ELSE /\ heap' = (next_addr :> MemoryObject(v)) @@ heap
            /\ next_addr' = next_addr + 1
            /\ used_heap_size' = used_heap_size + size_in_bytes(v)
            /\ IF current_frame_vars.top
               THEN /\ stack_frames' = [stack_frames EXCEPT ![Len(stack_frames)] =
                                            DictSet(@, n, next_addr)]
                    /\ declared' = [declared EXCEPT ![Len(declared)] = @ \cup {next_addr}]
                    /\ UNCHANGED current_frame_vars
               ELSE /\ current_frame_vars' = Detached(DictSet(current_frame_vars.vars, n, next_addr))
                    /\ UNCHANGED <<stack_frames, declared>>
            /\ mlast' = MemOutcome("declare_local_variable", "none", {})
    /\ UNCHANGED <<freed_count, inc_applied>>

set_local_variable(n, v) ==
    /\ UNCHANGED nonMemVars
    /\ IF ~DictHas(CurVars, n)
       THEN /\ mlast' = MemOutcome("set_local_variable", "MemoryError", {})
            /\ UNCHANGED <<heap, next_addr, stack_frames, current_frame_vars, used_heap_size,
                           freed_count, inc_applied, declared>>
       ELSE LET a == DictGet(CurVars, n)
                r == WriteOn(heap, used_heap_size, a, v)
            IN  /\ heap' = r.heap
                /\ used_heap_size' = r.used
                /\ mlast' = MemOutcome("set_local_variable", r.err, {})
                /\ UNCHANGED <<next_addr, stack_frames, current_frame_vars,
                               freed_count, inc_applied, declared>>

MemNext ==
    \/ \E v \in RuntimeValues : allocate(v)
    \/ \E a \in Addrs : deallocate(a)
    \/ \E a \in Addrs : inc_ref(a)
    \/ \E a \in Addrs : dec_ref(a)
    \/ \E a \in Addrs : read(a)
    \/ \E a \in Addrs, v \in RuntimeValues : write(a, v)
    \/ push_stack_frame
    \/ pop_stack_frame
    \/ \E n \in VarNames, v \in RuntimeValues : declare_local_variable(n, v)
    \/ \E n \in VarNames, v \in RuntimeValues : set_local_variable(n, v)

\* ---------------------------------------------------------------------
\* core/symbols.py
\* ---------------------------------------------------------------------
SymNames == {"x", "y"}
SymTypes == {"IntType", "FloatType"}
NotFound == [name |-> "None"]

Symbol(n, typ, level, is_mutable) ==
    [name |-> n, type |-> typ, scope_level |-> level, is_mutable |-> is_mutable]

Scope(level) == [level |-> level, symbols |-> <<>>]

SymOutcome(op, n, err, result) == [op |-> op, name |-> n, err |-> err, result |-> result]

\* SymbolTable.__init__: enter_scope() opens the global scope.
SymInit ==
    /\ scopes = <<Scope(0)>>
    /\ current_level = 0
    /\ slast = SymOutcome("init", "None", "none", NotFound)

\* Scope.lookup: this scope only.
ScopeLookup(scope, n) ==
    IF n \in DOMAIN scope.symbols THEN scope.symbols[n] ELSE NotFound

\* SymbolTable.lookup: for scope in reversed(self.scopes).
RECURSIVE LookupFrom(_, _, _)
LookupFrom(scs, i, n) ==
    IF i = 0 THEN NotFound
    ELSE IF ScopeLookup(scs[i], n) # NotFound THEN ScopeLookup(scs[i], n)
    ELSE LookupFrom(scs, i - 1, n)

\* lookup that walks from the outermost scope inwards.
Lookup_Outermost(scs, n) ==
    LET S == {i \in 1..Len(scs) : n \in DOMAIN scs[i].symbols}
    IN  IF S = {} THEN NotFound
        ELSE scs[CHOOSE i \in S : \A k \in S : i <= k].symbols[n]

Lookup(scs, n) == LookupFrom(scs, Len(scs), n)

\* Scope.insert without the duplicate test: the new symbol replaces the old.
ScopeInsert_Overwrite(scope, symbol) ==
    [err |-> "none",
     scope |-> [scope EXCEPT !.symbols =
                   (symbol.name :> symbol) @@ Remove(@, symbol.name)]]

\* Scope.insert on a scope: the error kind, or the scope with the symbol.
ScopeInsert(scope, symbol) ==
    IF symbol.name \in DOMAIN scope.symbols
    THEN [err |-> "KeyError", scope |-> scope]
    ELSE [err |-> "none",
          scope |-> [scope EXCEPT !.symbols = (symbol.name :> symbol) @@ @]]

enter_scope ==
    /\ UNCHANGED nonSymVars
    /\ Len(scopes) < MaxScopes
    /\ current_level' = current_level + 1
    /\ scopes' = Append(scopes, Scope(current_level + 1))
    /\ slast' = SymOutcome("enter_scope", "None", "none", NotFound)

exit_scope ==
    /\ UNCHANGED nonSymVars
    /\ IF current_level < 0
       THEN /\ slast' = SymOutcome("exit_scope", "None", "RuntimeError", NotFound)
            /\ UNCHANGED <<scopes, current_level>>
       ELSE /\ scopes' = Front(scopes)
            /\ current_level' = current_level - 1
            /\ slast' = SymOutcome("exit_scope", "None", "none", NotFound)

\* SymbolTable.insert: self.scopes[self.current_level] is an IndexError on
\* an empty list (current_level = -1 indexes the last element otherwise).
insert(n, typ, is_mutable) ==
    /\ UNCHANGED nonSymVars
    /\ LET symbol == Symbol(n, typ, current_level, is_mutable)
       IN  IF scopes = <<>>
           THEN /\ slast' = SymOutcome("insert", n, "IndexError", NotFound)
                /\ UNCHANGED <<scopes, current_level>>
           ELSE LET r == ScopeInsert(scopes[current_level + 1], symbol)
                IN  /\ scopes' = [scopes EXCEPT ![current_level + 1] = r.scope]
                    /\ slast' = SymOutcome("insert", n, r.err,
                                           IF r.err = "none" THEN symbol ELSE NotFound)
                    /\ UNCHANGED current_level

lookup(n) ==
    /\ UNCHANGED nonSymVars
    /\ slast' = SymOutcome("lookup", n, "none", Lookup(scopes, n))
    /\ UNCHANGED <<scopes, current_level>>

SymNext ==
    \/ enter_scope
    \/ exit_scope
    \/ \E n \in SymNames, typ \in SymTypes : insert(n, typ, FALSE)
    \/ \E n \in SymNames : lookup(n)

\* ---------------------------------------------------------------------
\* core/interpreter.py
\* ---------------------------------------------------------------------
NoneEnv == 0
GlobalEnv == 1

Names == {"f", "g"}          \* names of the declared functions
ParamName == "p"             \* the declared functions have this one parameter
ParamCounts == {1}
ArgCounts == 0..1            \* a call passes no argument or one number
Exprs == {"lit"} \cup Names  \* a literal, or a VariableNode
NumValue == 0                \* a number; a value k > 0 is the Function object k
NoValue == -1                \* Python None

\* Environment.__init__
Environment(parent) == [values |-> <<>>, parent |-> parent]

\* Function.__init__: the declaration's parameter list and the closure.
Function(nparams, closure) == [nparams |-> nparams, closure |-> closure]

\* Environment.define on the store.
EnvDefine(es, e, n, v) == [es EXCEPT ![e].values = (n :> v) @@ @]

\* Environment.get: None when no environment of the chain binds the name.
RECURSIVE EnvGet(_, _, _)
EnvGet(es, e, n) ==
    IF n \in DOMAIN es[e].values THEN es[e].values[n]
    ELSE IF es[e].parent # NoneEnv THEN EnvGet(es, es[e].parent, n)
    ELSE NoValue

\* Python callable(): class Function defines call() but no __call__, and
\* numbers have none either, so no value an Environment can hold is callable.
Callable(v) == FALSE

\* visit_literal / visit_variable on the current environment.
Eval(x) ==
    IF x = "lit" THEN [err |-> "none", val |-> NumValue]
    ELSE IF env = NoneEnv THEN [err |-> "AttributeError", val |-> NoValue]
    ELSE IF EnvGet(envs, env, x) = NoValue THEN [err |-> "RuntimeError", val |-> NoValue]
    ELSE [err |-> "none", val |-> EnvGet(envs, env, x)]

\* Interpreter.pop_env: self.env = self.env.parent.
PopEnv(e) ==
    IF e = NoneEnv THEN [err |-> "AttributeError", env |-> e]
    ELSE [err |-> "none", env |-> envs[e].parent]

ActiveFrame(kind, entry, fn, callenv) ==
    [kind |-> kind, entry |-> entry, fn |-> fn, callenv |-> callenv]

Quiet == [kind |-> "none", before |-> NoneEnv, after |-> NoneEnv, exit |-> "none",
          expected |-> 0, got |-> 0]
Left(kind, before, after, exit) ==
    [kind |-> kind, before |-> before, after |-> after, exit |-> exit,
     expected |-> 0, got |-> 0]

\* Interpreter.__init__
InterpInit ==
    /\ envs = <<Environment(NoneEnv)>>
    /\ env = GlobalEnv
    /\ funcs = <<>>
    /\ ctrl = <<>>
    /\ signal = "none"
    /\ retval = NoValue
    /\ host_fns = {}
    /\ ilast = Quiet
    /\ call_log = {}

Raise(kind) ==
    /\ signal' = kind
    /\ ilast' = Quiet
    /\ UNCHANGED <<envs, env, funcs, ctrl, retval, host_fns, call_log>>

\* visit_block up to its first statement: push_env().
visit_block ==
    /\ UNCHANGED nonInterpVars
    /\ signal = "none"
    /\ Len(envs) < MaxEnvs
    /\ Len(ctrl) < MaxCtrl
    /\ envs' = Append(envs, Environment(env))
    /\ env' = Len(envs) + 1
    /\ ctrl' = Append(ctrl, ActiveFrame("block", env, 0, NoneEnv))
    /\ ilast' = Quiet
    /\ UNCHANGED <<funcs, signal, retval, host_fns, call_log>>

\* visit_for up to its initializer: push_env().
visit_for ==
    /\ UNCHANGED nonInterpVars
    /\ signal = "none"
    /\ Len(envs) < MaxEnvs
    /\ Len(ctrl) < MaxCtrl
    /\ envs' = Append(envs, Environment(env))
    /\ env' = Len(envs) + 1
    /\ ctrl' = Append(ctrl, ActiveFrame("for", env, 0, NoneEnv))
    /\ ilast' = Quiet
    /\ UNCHANGED <<funcs, signal, retval, host_fns, call_log>>

\* visit_function_def: Function(node, self.env), then self.env.define.
visit_function_def(n, nparams) ==
    /\ UNCHANGED nonInterpVars
    /\ signal = "none"
    /\ Len(funcs) < MaxFuncs
    /\ IF env = NoneEnv THEN Raise("AttributeError")
       ELSE /\ funcs' = Append(funcs, Function(nparams, env))
            /\ envs' = EnvDefine(envs, env, n, Len(funcs) + 1)
            /\ ilast' = Quiet
            /\ UNCHANGED <<env, ctrl, signal, retval, host_fns, call_log>>

\* visit_call: the callee is evaluated, then callable(callee) is tested.
visit_call(n) ==
    /\ UNCHANGED nonInterpVars
    /\ signal = "none"
    /\ LET r == Eval(n)
       IN  IF r.err # "none" THEN Raise(r.err)
           ELSE IF ~Callable(r.val) THEN Raise("RuntimeError")
           ELSE Raise("AttributeError")

\* visit_return: raise ReturnException(value).
visit_return(x) ==
    /\ UNCHANGED nonInterpVars
    /\ signal = "none"
    /\ LET r == Eval(x)
       IN  IF r.err # "none" THEN Raise(r.err)
           ELSE /\ signal' = "return"
                /\ retval' = r.val
                /\ ilast' = Quiet
                /\ UNCHANGED <<envs, env, funcs, ctrl, host_fns, call_log>>

\* The Function objects the caller of Function.call can hold: those bound in
\* the global environment and those returned by earlier calls.
HostFunctions ==
    {v \in 1..Len(funcs) :
        \E n \in DOMAIN envs[GlobalEnv].values : envs[GlobalEnv].values[n] = v}
        \cup host_fns

CallEnvParent_Dynamic(f) == env

\* The parent of the Environment a call creates: Environment(parent=self.closure).
CallEnvParent(f) == funcs[f].closure

\* Function.call up to the first statement of the body. The Environment
\* made by interpreter.push_env() is overwritten by interpreter.env = env at
\* once and is not kept in the store. The body is a BlockNode, so
\* body.accept is visit_block and pushes the Environment of the body.
Function_call(f, nargs) ==
    /\ UNCHANGED nonInterpVars
    /\ signal = "none"
    /\ ctrl = <<>>
    /\ f \in HostFunctions
    /\ Len(envs) + 2 <= MaxEnvs
    /\ IF nargs # funcs[f].nparams
       THEN /\ signal' = "RuntimeError"
            /\ ilast' = [Left("call", env, env, "RuntimeError")
                            EXCEPT !.expected = funcs[f].nparams, !.got = nargs]
            /\ UNCHANGED <<envs, env, funcs, ctrl, retval, host_fns, call_log>>
       ELSE LET callenv == Len(envs) + 1
                bound == [Environment(CallEnvParent(f)) EXCEPT !.values =
                             IF nargs = 1 THEN (ParamName :> NumValue) ELSE <<>>]
            IN  /\ envs' = envs \o <<bound, Environment(callenv)>>
                /\ env' = callenv + 1
                /\ ctrl' = <<ActiveFrame("call", env, f, callenv),
                             ActiveFrame("block", callenv, 0, NoneEnv)>>
                /\ call_log' = call_log \cup {[fn |-> f, env |-> callenv]}
                /\ ilast' = Quiet
                /\ UNCHANGED <<funcs, signal, retval, host_fns>>

\* Python frees an object when its last reference goes away. Environment
\* and Function ids are positions in the stores, so the model drops the
\* newest Environment while nothing refers to it (Interpreter.env,
\* Interpreter.global_env, an active execution, a closure) and the newest
\* Function while nothing refers to it (a binding, a return value in
\* flight, the caller of Function.call, an active call).
RECURSIVE Reclaim(_, _, _, _, _, _)
Reclaim(es, fs, e, c, r, h) ==
    LET n == Len(es)
        m == Len(fs)
        envLive == \/ n = GlobalEnv
                   \/ n = e
                   \/ \E i \in 1..Len(c) : c[i].entry = n \/ c[i].callenv = n
                   \/ \E f \in 1..m : fs[f].closure = n
        funcLive == \/ m \in h
                    \/ m = r
                    \/ \E i \in 1..Len(c) : c[i].fn = m
                    \/ \E k \in 1..n : \E nm \in DOMAIN es[k].values :
                           es[k].values[nm] = m
    IN  IF ~envLive THEN Reclaim(Front(es), fs, e, c, r, h)
        ELSE IF m > 0 /\ ~funcLive THEN Reclaim(es, Front(fs), e, c, r, h)
        ELSE [envs |-> es, funcs |-> fs]

\* The stores and the call history after references were dropped.
Settle(e, c, r, h) ==
    LET kept == Reclaim(envs, funcs, e, c, r, h)
    IN  /\ envs' = kept.envs
        /\ funcs' = kept.funcs
        /\ call_log' = {l \in call_log :
                           l.env <= Len(kept.envs) /\ l.fn <= Len(kept.funcs)}

\* Normal completion of the innermost block, loop or call: the finally
\* clause runs pop_env(); a call without return yields None.
complete ==
    /\ UNCHANGED nonInterpVars
    /\ signal = "none"
    /\ ctrl # <<>>
    /\ LET top == Last(ctrl)
           r == PopEnv(env)
       IN  /\ ctrl' = Front(ctrl)
           /\ env' = r.env
           /\ signal' = r.err
           /\ ilast' = Left(top.kind, top.entry, r.env,
                            IF r.err = "none" THEN "normal" ELSE r.err)
           /\ Settle(r.env, Front(ctrl), retval, host_fns)
           /\ UNCHANGED <<retval, host_fns>>

\* An exception leaves the innermost block, loop or call: the finally
\* clause runs pop_env(); Function.call catches ReturnException.
unwind ==
    /\ UNCHANGED nonInterpVars
    /\ signal # "none"
    /\ ctrl # <<>>
    /\ LET top == Last(ctrl)
           r == PopEnv(env)
           caught == top.kind = "call" /\ signal = "return"
           held == IF caught /\ r.err = "none" /\ retval > 0
                   THEN host_fns \cup {retval} ELSE host_fns
           value == IF caught \/ r.err # "none" THEN NoValue ELSE retval
       IN  /\ ctrl' = Front(ctrl)
           /\ env' = r.env
           /\ signal' = IF r.err # "none" THEN r.err
                        ELSE IF caught THEN "none" ELSE signal
           /\ host_fns' = held
           /\ retval' = value
           /\ ilast' = Left(top.kind, top.entry, r.env,
                            IF r.err # "none" THEN r.err ELSE signal)
           /\ Settle(r.env, Front(ctrl), value, held)

\* The exception reaches the top: Interpreter.interpret prints and returns
\* None, or the caller of Function.call receives it.
top_level_catch ==
    /\ UNCHANGED nonInterpVars
    /\ signal # "none"
    /\ ctrl = <<>>
    /\ signal' = "none"
    /\ retval' = NoValue
    /\ ilast' = Quiet
    /\ Settle(env, ctrl, NoValue, host_fns)
    /\ UNCHANGED <<env, ctrl, host_fns>>

InterpNext ==
    \/ visit_block
    \/ visit_for
    \/ \E n \in Names, k \in ParamCounts : visit_function_def(n, k)
    \/ \E n \in Names : visit_call(n)
    \/ \E x \in Exprs : visit_return(x)
    \/ \E f \in 1..MaxFuncs, k \in ArgCounts : Function_call(f, k)
    \/ complete
    \/ unwind
    \/ top_level_catch

\* ---------------------------------------------------------------------
\* core/runtime.py, runtime/runtime_env.py, core/config.py
\* ---------------------------------------------------------------------
DefaultMaxStackDepth == 1024
MinStackDepth == 1
StackDepthLimit == 100000

GlobalNames == {"a"}
ArgLists == {<<>>, <<1>>, <<1, 2>>}

\* runtime.py Environment.__init__; the parent is named, not copied.
RtEnvironment(parent) == [values |-> <<>>, parent |-> parent]

\* runtime.py Function.__init__
RtFunction(name, params, closure_env) ==
    [name |-> name, params |-> params, closure_env |-> closure_env]

\* The Function objects handed to Runtime.
RtFunctions ==
    {RtFunction("bar", <<>>, "global_env"),
     RtFunction("foo", <<"x", "y">>, "global_env")}

\* runtime.py Frame.__init__
Frame(func, e) == [func |-> func, env |-> e]

\* for name, val in zip(params, args): define(name, val)
Bind(params, args) ==
    LET k == IF Len(args) < Len(params) THEN Len(args) ELSE Len(params)
    IN  [n \in {params[i] : i \in 1..k} |->
            args[CHOOSE i \in 1..k : params[i] = n]]

RunOutcome(op, err, expected, got) ==
    [op |-> op, err |-> err, expected |-> expected, got |-> got]

\* runtime_env.py StackFrame.__init__
StackFrame(function_name, parent_scope) ==
    [function_name |-> function_name,
     local_scope |-> [symbols |-> <<>>, parent |-> parent_scope]]

\* runtime_env.py RuntimeEnv.lookup_function: example_functions
example_functions == ("foo" :> <<"x", "y">>) @@ ("bar" :> <<>>)
FunctionNames == {"foo", "bar", "baz"}

\* Runtime.__init__, RuntimeEnv.__init__, Config._defaults
RunInit ==
    /\ global_env = ("print" :> "native") @@ ("input" :> "native")
    /\ call_stack = <<>>
    /\ env_call_stack = <<StackFrame("<global>", "global_scope")>>
    /\ max_stack_depth = DefaultMaxStackDepth
    /\ rlast = RunOutcome("init", "none", -1, -1)

ArityOk_Lenient(params, args) == Len(args) <= Len(params)

\* runtime.py line 71: len(args) != len(func.params)
ArityOk(params, args) == Len(args) = Len(params)

\* The call stack and the outcome of Runtime.push_frame.
PushFrame(func, args) ==
    IF ~ArityOk(func.params, args)
    THEN [stack |-> call_stack,
          out |-> RunOutcome("push_frame", "RuntimeError", Len(func.params), Len(args))]
    ELSE [stack |-> Append(call_stack,
                       Frame(func, [RtEnvironment(func.closure_env)
                                       EXCEPT !.values = Bind(func.params, args)])),
          out |-> RunOutcome("push_frame", "none", -1, -1)]

push_frame(func, args) ==
    /\ UNCHANGED nonRunVars
    /\ ArityOk(func.params, args) => Len(call_stack) < MaxCallStack
    /\ call_stack' = PushFrame(func, args).stack
    /\ rlast' = PushFrame(func, args).out
    /\ UNCHANGED <<global_env, env_call_stack, max_stack_depth>>

\* deque.pop() on an empty deque raises IndexError.
pop_frame ==
    /\ UNCHANGED nonRunVars
    /\ IF call_stack = <<>>
       THEN /\ rlast' = RunOutcome("pop_frame", "IndexError", -1, -1)
            /\ UNCHANGED call_stack
       ELSE /\ call_stack' = Front(call_stack)
            /\ rlast' = RunOutcome("pop_frame", "none", -1, -1)
    /\ UNCHANGED <<global_env, env_call_stack, max_stack_depth>>

\* Runtime.call_function on a Function: push_frame, then the body raises
\* NotImplementedError and the finally clause pops the frame again.
call_function(func, args) ==
    /\ UNCHANGED nonRunVars
    /\ ArityOk(func.params, args) => Len(call_stack) < MaxCallStack
    /\ LET pushed == PushFrame(func, args)
       IN  IF pushed.out.err # "none"
           THEN /\ call_stack' = pushed.stack
                /\ rlast' = [pushed.out EXCEPT !.op = "call_function"]
           ELSE /\ call_stack' = Front(pushed.stack)
                /\ rlast' = RunOutcome("call_function", "NotImplementedError", -1, -1)
    /\ UNCHANGED <<global_env, env_call_stack, max_stack_depth>>

define_global(n, v) ==
    /\ UNCHANGED nonRunVars
    /\ global_env' = (n :> v) @@ global_env
    /\ rlast' = RunOutcome("define_global", "none", -1, -1)
    /\ UNCHANGED <<call_stack, env_call_stack, max_stack_depth>>

\* RuntimeEnv.call_function: lookup_function, the arity check, then
\* push_stack_frame and the declaration of the parameters.
RuntimeEnv_call_function(function_name, args) ==
    /\ UNCHANGED nonRunVars
    /\ IF function_name \notin DOMAIN example_functions
       THEN /\ rlast' = RunOutcome("RuntimeEnv.call_function", "RuntimeError", -1, -1)
            /\ UNCHANGED env_call_stack
       ELSE LET params == example_functions[function_name]
            IN  IF Len(args) # Len(params)
                THEN /\ rlast' = RunOutcome("RuntimeEnv.call_function", "RuntimeError",
                                            Len(params), Len(args))
                     /\ UNCHANGED env_call_stack
                ELSE /\ Len(env_call_stack) <= MaxCallStack
                     /\ env_call_stack' = Append(env_call_stack,
                            [StackFrame(function_name, "global_scope")
                                EXCEPT !.local_scope.symbols = Bind(params, args)])
                     /\ rlast' = RunOutcome("RuntimeEnv.call_function", "none", -1, -1)
    /\ UNCHANGED <<global_env, call_stack, max_stack_depth>>

RuntimeEnv_pop_stack_frame ==
    /\ UNCHANGED nonRunVars
    /\ IF Len(env_call_stack) <= 1
       THEN /\ rlast' = RunOutcome("RuntimeEnv.pop_stack_frame", "RuntimeError", -1, -1)
            /\ UNCHANGED env_call_stack
       ELSE /\ env_call_stack' = Front(env_call_stack)
            /\ rlast' = RunOutcome("RuntimeEnv.pop_stack_frame", "none", -1, -1)
    /\ UNCHANGED <<global_env, call_stack, max_stack_depth>>

\* Config.set('max_stack_depth', value): _cast_int(value, 1, 100000).
Config_set(value) ==
    /\ UNCHANGED nonRunVars
    /\ IF value < MinStackDepth \/ value > StackDepthLimit
       THEN /\ rlast' = RunOutcome("Config.set", "ConfigError", -1, -1)
            /\ UNCHANGED max_stack_depth
       ELSE /\ max_stack_depth' = value
            /\ rlast' = RunOutcome("Config.set", "none", -1, -1)
    /\ UNCHANGED <<global_env, call_stack, env_call_stack>>

RunNext ==
    \/ \E func \in RtFunctions, args \in ArgLists : push_frame(func, args)
    \/ pop_frame
    \/ \E func \in RtFunctions, args \in ArgLists : call_function(func, args)
    \/ \E n \in GlobalNames, v \in 1..2 : define_global(n, v)
    \/ \E fn \in FunctionNames, args \in ArgLists : RuntimeEnv_call_function(fn, args)
    \/ RuntimeEnv_pop_stack_frame
    \/ \E value \in 0..MaxConfigured : Config_set(value)

\* ---------------------------------------------------------------------
\* core/validator.py
\* ---------------------------------------------------------------------
NoneType == [kind |-> "None"]
IntType == [kind |-> "IntType"]
BoolType == [kind |-> "BoolType"]
VoidType == [kind |-> "VoidType"]
FunctionType(param_types, return_type) ==
    [kind |-> "FunctionType", param_types |-> param_types, return_type |-> return_type]

TypeNames == {"int", "bool"}         \* type annotations of declarations
ValNames == {"f", "x"}               \* names of variables, parameters and callees
DeclaredFunctions == {"f"}           \* names of the function declarations
ParamLists == {<<>>, <<"x">>}        \* parameter names of a declaration; typed int
\* The type validate() returns for an expression: the return type of a call,
\* None for the node kinds without a validate_ method.
ExprTypes == {NoneType, IntType, BoolType}
ArgTypeLists == {<<>>, <<IntType>>, <<BoolType>>}

\* helixlang.types.get_type: the Type a type annotation names.
get_type(ann) == IF ann = "int" THEN IntType ELSE BoolType

\* helixlang.types.is_subtype on the types used here: reflexive, and no two
\* distinct types of {None, Int, Bool, Void} are related.
is_subtype(a, b) == a = b

ValOutcome(op, raised, violated, appended) ==
    [op |-> op, raised |-> raised, violated |-> violated, appended |-> appended]

\* Validator.error appends; errs is the list, kinds what one statement adds.
ErrorAll(errs, kinds) == errs \o kinds

\* Validator.__init__
ValInit ==
    /\ errors = <<>>
    /\ current_function_return_type = NoneType
    /\ vctl = <<>>
    /\ vlast = ValOutcome("init", "none", FALSE, 0)

\* An exception leaves validate(): nothing catches it and no scope that
\* was entered is exited.
ValRaise(op, kinds, raised, violated) ==
    /\ errors' = ErrorAll(errors, kinds)
    /\ vctl' = <<>>
    /\ vlast' = ValOutcome(op, raised, violated, Len(kinds))
    /\ UNCHANGED <<scopes, current_level, current_function_return_type>>

\* A statement validated to its end.
ValDone(op, kinds, violated) ==
    /\ errors' = ErrorAll(errors, kinds)
    /\ vlast' = ValOutcome(op, "none", violated, Len(kinds))
    /\ UNCHANGED <<scopes, current_level, current_function_return_type, vctl>>

\* validate_program up to the first statement: symbols.enter_scope().
validate_program ==
    /\ UNCHANGED nonValVars
    /\ vctl = <<>>
    /\ Len(scopes) < MaxScopes
    /\ scopes' = Append(scopes, Scope(current_level + 1))
    /\ current_level' = current_level + 1
    /\ vctl' = <<"program">>
    /\ vlast' = ValOutcome("program", "none", FALSE, 0)
    /\ UNCHANGED <<errors, current_function_return_type>>

\* validate_block up to the first statement: symbols.enter_scope().
validate_block ==
    /\ UNCHANGED nonValVars
    /\ Len(scopes) < MaxScopes
    /\ scopes' = Append(scopes, Scope(current_level + 1))
    /\ current_level' = current_level + 1
    /\ vctl' = Append(vctl, "block")
    /\ vlast' = ValOutcome("block", "none", FALSE, 0)
    /\ UNCHANGED <<errors, current_function_return_type>>

\* The end of a program, block or function body: symbols.exit_scope().
validate_end ==
    /\ UNCHANGED nonValVars
    /\ vctl # <<>>
    /\ scopes' = Front(scopes)
    /\ current_level' = current_level - 1
    /\ vctl' = Front(vctl)
    /\ vlast' = ValOutcome("end", "none", FALSE, 0)
    /\ UNCHANGED <<errors, current_function_return_type>>

\* validate_var_decl: SymbolTable.insert has no parameter named mutable, so
\* insert(var_name, var_type, mutable=...) is a Python TypeError.
validate_var_decl(n, ann, expr_type) ==
    /\ UNCHANGED nonValVars
    /\ Len(errors) + 2 <= MaxErrors
    /\ LET var_type == get_type(ann)
           mismatch == ~is_subtype(expr_type, var_type)
       IN  ValRaise("var_decl", IF mismatch THEN <<"TypeError">> ELSE <<>>,
                    "builtins.TypeError", mismatch)

\* validate_assignment: var_info.mutable is read whether or not the lookup
\* found a Symbol; None has no attributes and Symbol names it is_mutable.
validate_assignment(n, expr_type) ==
    /\ UNCHANGED nonValVars
    /\ Len(errors) + 2 <= MaxErrors
    /\ LET var_info == Lookup(scopes, n)
           missing == var_info = NotFound
       IN  ValRaise("assignment", IF missing THEN <<"ValidationError">> ELSE <<>>,
                    "AttributeError", missing)

\* validate_function_decl up to the body: insert the function symbol,
\* enter_scope, insert the parameters, set current_function_return_type.
validate_function_decl(n, params, ret_ann) ==
    /\ UNCHANGED nonValVars
    /\ Len(errors) + 2 <= MaxErrors
    /\ LET param_types == [i \in 1..Len(params) |-> IntType]
           return_type == get_type(ret_ann)
           func_type == FunctionType(param_types, return_type)
           r == ScopeInsert(scopes[current_level + 1],
                            Symbol(n, func_type, current_level, FALSE))
           body == [Scope(current_level + 1) EXCEPT !.symbols =
                       [p \in {params[i] : i \in 1..Len(params)} |->
                           Symbol(p, IntType, current_level + 1, FALSE)]]
       IN  IF r.err # "none" THEN ValRaise("function_decl", <<>>, r.err, TRUE)
           ELSE /\ Len(scopes) < MaxScopes
                /\ scopes' = Append([scopes EXCEPT ![current_level + 1] = r.scope], body)
                /\ current_level' = current_level + 1
                /\ current_function_return_type' = return_type
                /\ vctl' = Append(vctl, "function")
                /\ vlast' = ValOutcome("function_decl", "none", FALSE, 0)
                /\ UNCHANGED errors

\* validate_function_call: func_info.type is read whether or not the
\* lookup found a Symbol, and param_types whether or not it is a function.
validate_function_call(n, arg_types) ==
    /\ UNCHANGED nonValVars
    /\ Len(errors) + 2 <= MaxErrors
    /\ LET func_info == Lookup(scopes, n)
       IN  IF func_info = NotFound
           THEN ValRaise("function_call", <<"ValidationError">>, "AttributeError", TRUE)
           ELSE IF func_info.type.kind # "FunctionType"
           THEN ValRaise("function_call", <<"TypeError">>, "AttributeError", TRUE)
           ELSE LET expected == func_info.type.param_types
                    arity == Len(expected) # Len(arg_types)
                    k == IF Len(arg_types) < Len(expected)
                         THEN Len(arg_types) ELSE Len(expected)
                    bad == {i \in 1..k : ~is_subtype(arg_types[i], expected[i])}
                IN  ValDone("function_call",
                            (IF arity THEN <<"TypeError">> ELSE <<>>) \o
                                [i \in 1..Cardinality(bad) |-> "TypeError"],
                            arity \/ bad # {})

\* validate_if: the condition must be Bool; the branches follow as
\* statements of their own.
validate_if(cond_type) ==
    /\ UNCHANGED nonValVars
    /\ Len(errors) + 2 <= MaxErrors
    /\ LET bad == ~is_subtype(cond_type, BoolType)
       IN  ValDone("if", IF bad THEN <<"TypeError">> ELSE <<>>, bad)

\* validate_return: value_type is None for a return without value.
validate_return(value_type) ==
    /\ UNCHANGED nonValVars
    /\ Len(errors) + 2 <= MaxErrors
    /\ LET outside == current_function_return_type = NoneType
           return_type == IF value_type = NoneType THEN VoidType ELSE value_type
           mismatch == ~is_subtype(return_type, current_function_return_type)
       IN  ValDone("return",
                   (IF outside THEN <<"ValidationError">> ELSE <<>>) \o
                       (IF mismatch THEN <<"TypeError">> ELSE <<>>),
                   outside \/ mismatch)

ValNext ==
    \/ validate_program
    \/ validate_block
    \/ validate_end
    \/ \E n \in ValNames, ann \in TypeNames, t \in ExprTypes : validate_var_decl(n, ann, t)
    \/ \E n \in ValNames, t \in ExprTypes : validate_assignment(n, t)
    \/ \E n \in DeclaredFunctions, ps \in ParamLists, ann \in TypeNames :
           validate_function_decl(n, ps, ann)
    \/ \E n \in ValNames, ts \in ArgTypeLists : validate_function_call(n, ts)
    \/ \E t \in ExprTypes : validate_if(t)
    \/ \E t \in ExprTypes : validate_return(t)

\* ---------------------------------------------------------------------
\* cli/file_runner.py: run_file
\* ---------------------------------------------------------------------

MaxRuns == 2

Extensions == {".hlx", ".hxir", ".txt"}
Programs == {"well_typed", "ill_typed"}
NoFile == [isfile |-> FALSE, ext |-> ".hlx", program |-> "well_typed"]

\* the stages that follow validation: IR building and execution
LaterStages == {"compile_ast_to_ir", "execute_ir"}

PipeInit ==
    /\ pc = "idle"
    /\ pfile = NoFile
    /\ pdebug = FALSE
    /\ plog = <<>>
    /\ pout = 0
    /\ pruns = 0

DebugLines(debug) == IF debug THEN 1 ELSE 0

\* the call `stage` is started, after the debug line that precedes it
StartStage(stage) ==
    /\ pc' = stage
    /\ plog' = Append(plog, stage)
    /\ pout' = pout + DebugLines(pdebug)

\* except Exception: the traceback is printed and the process exits with 1
ExitWithError ==
    /\ pc' = "exit"
    /\ pout' = pout + 1
    /\ UNCHANGED plog

\* run_file(filepath, debug=debug) up to its first call
run_file(isfile, ext, program, debug) ==
    /\ UNCHANGED nonPipeVars
    /\ pc \in {"idle", "returned"}
    /\ pruns < MaxRuns
    /\ pruns' = pruns + 1
    /\ pfile' = [isfile |-> isfile, ext |-> ext, program |-> program]
    /\ pdebug' = debug
    /\ IF ~isfile
         THEN pc' = "exit" /\ plog' = <<>> /\ pout' = 1
         ELSE IF ext = ".hlx"
                THEN pc' = "read_file" /\ plog' = <<"read_file">> /\ pout' = 0
                ELSE IF ext = ".hxir"
                       THEN /\ pc' = "load_ir"
                            /\ plog' = <<"load_ir">>
                            /\ pout' = DebugLines(debug)
                       ELSE pc' = "exit" /\ plog' = <<>> /\ pout' = 1

\* source = read_file(filepath)
read_file(raises) ==
    /\ UNCHANGED nonPipeVars
    /\ pc = "read_file"
    /\ IF raises THEN ExitWithError ELSE StartStage("parse_source_code")
    /\ UNCHANGED <<pfile, pdebug, pruns>>

\* ast = parse_source_code(source)
parse_source_code(raises) ==
    /\ UNCHANGED nonPipeVars
    /\ pc = "parse_source_code"
    /\ IF raises THEN ExitWithError ELSE StartStage("compile_ast_to_ir")
    /\ UNCHANGED <<pfile, pdebug, pruns>>

\* ir = compile_ast_to_ir(ast)
compile_ast_to_ir(raises) ==
    /\ UNCHANGED nonPipeVars
    /\ pc = "compile_ast_to_ir"
    /\ IF raises THEN ExitWithError ELSE StartStage("execute_ir")
    /\ UNCHANGED <<pfile, pdebug, pruns>>

\* ir = load_ir(filepath)
load_ir(raises) ==
    /\ UNCHANGED nonPipeVars
    /\ pc = "load_ir"
    /\ IF raises THEN ExitWithError ELSE StartStage("execute_ir")
    /\ UNCHANGED <<pfile, pdebug, pruns>>

\* result = execute_ir(ir); return result
execute_ir(raises) ==
    /\ UNCHANGED nonPipeVars
    /\ pc = "execute_ir"
    /\ IF raises
         THEN ExitWithError
         ELSE pc' = "returned" /\ UNCHANGED <<plog, pout>>
    /\ UNCHANGED <<pfile, pdebug, pruns>>

PipeNext ==
    \/ \E isfile \in BOOLEAN, ext \in Extensions, program \in Programs,
          debug \in BOOLEAN : run_file(isfile, ext, program, debug)
    \/ \E raises \in BOOLEAN : read_file(raises)
    \/ \E raises \in BOOLEAN : parse_source_code(raises)
    \/ \E raises \in BOOLEAN : compile_ast_to_ir(raises)
    \/ \E raises \in BOOLEAN : load_ir(raises)
    \/ \E raises \in BOOLEAN : execute_ir(raises)

\* ---------------------------------------------------------------------
\* core/types.py: Type and its subclasses
\* ---------------------------------------------------------------------

FloatType == [kind |-> "FloatType"]
StringType == [kind |-> "StringType"]
ArrayType(element_type) == [kind |-> "ArrayType", element_type |-> element_type]
StructType(name, fields) == [kind |-> "StructType", name |-> name, fields |-> fields]
TupleType(element_types) == [kind |-> "TupleType", element_types |-> element_types]

PrimitiveTypes == {IntType, FloatType, BoolType, StringType}
StructNames == {"P", "Q"}
FieldNames == {"a", "b"}
FieldTypes == {IntType, FloatType}
FieldMaps == UNION {[D -> FieldTypes] : D \in SUBSET FieldNames}
StructTypes == {StructType(n, f) : n \in StructNames, f \in FieldMaps}
ArrayTypes == {ArrayType(t) : t \in PrimitiveTypes}
TupleTypes == {TupleType(<<IntType>>), TupleType(<<FloatType>>),
               TupleType(<<IntType, FloatType>>)}
FunctionTypes == {FunctionType(<<IntType>>, IntType), FunctionType(<<FloatType>>, IntType),
                  FunctionType(<<IntType>>, FloatType), FunctionType(<<>>, BoolType)}
Types == PrimitiveTypes \cup ArrayTypes \cup StructTypes \cup TupleTypes
             \cup FunctionTypes

\* self == other: the __eq__ of the class of self
RECURSIVE TypeEq(_, _)
TypeEq(self, other) ==
    CASE self.kind = "IntType" -> other.kind = "IntType"
      [] self.kind = "FloatType" -> other.kind \in {"FloatType", "IntType"}
      [] self.kind = "BoolType" -> other.kind = "BoolType"
      [] self.kind = "StringType" -> other.kind = "StringType"
      [] self.kind = "ArrayType" ->
            /\ other.kind = "ArrayType"
            /\ TypeEq(self.element_type, other.element_type)
      [] self.kind = "StructType" ->
            /\ other.kind = "StructType"
            /\ self.name = other.name
            /\ DOMAIN self.fields = DOMAIN other.fields
            /\ \A k \in DOMAIN self.fields :
                  TypeEq(self.fields[k], other.fields[k])
      [] self.kind = "TupleType" ->
            /\ other.kind = "TupleType"
            /\ Len(self.element_types) = Len(other.element_types)
            /\ \A i \in 1..Len(self.element_types) :
                  TypeEq(self.element_types[i], other.element_types[i])
      [] self.kind = "FunctionType" ->
            /\ other.kind = "FunctionType"
            /\ Len(self.param_types) = Len(other.param_types)
            /\ \A i \in 1..Len(self.param_types) :
                  TypeEq(self.param_types[i], other.param_types[i])
            /\ TypeEq(self.return_type, other.return_type)

\* `key not in self.fields` is false for every key of other.fields
HasFieldsOf_Reversed(self, other) == DOMAIN self.fields \subseteq DOMAIN other.fields
HasFieldsOf(self, other) == DOMAIN other.fields \subseteq DOMAIN self.fields

RECURSIVE is_subtype_of(_, _)
is_subtype_of(self, other) ==
    CASE self.kind = "FloatType" -> other.kind = "FloatType"
      [] self.kind = "ArrayType" ->
            /\ other.kind = "ArrayType"
            /\ is_subtype_of(self.element_type, other.element_type)
      [] self.kind = "StructType" ->
            /\ other.kind = "StructType"
            /\ self.name = other.name
            /\ HasFieldsOf(self, other)
            /\ \A key \in DOMAIN other.fields :
                  is_subtype_of(self.fields[key], other.fields[key])
      [] self.kind = "TupleType" ->
            /\ other.kind = "TupleType"
            /\ Len(self.element_types) = Len(other.element_types)
            /\ \A i \in 1..Len(self.element_types) :
                  is_subtype_of(self.element_types[i], other.element_types[i])
      [] self.kind = "FunctionType" ->
            \* contravariant in the parameters, covariant in the return type
            /\ other.kind = "FunctionType"
            /\ Len(self.param_types) = Len(other.param_types)
            /\ \A i \in 1..Len(self.param_types) :
                  is_subtype_of(other.param_types[i], self.param_types[i])
            /\ is_subtype_of(self.return_type, other.return_type)
      [] OTHER -> TypeEq(self, other)

RECURSIVE unify(_, _)
RECURSIVE UnifyEach(_, _, _)
unify(self, other) ==
    CASE self.kind = "FloatType" ->
            IF other.kind \in {"IntType", "FloatType"} THEN FloatType ELSE NoneType
      [] self.kind = "ArrayType" ->
            IF other.kind # "ArrayType"
              THEN NoneType
              ELSE LET elem_type == unify(self.element_type, other.element_type)
                   IN IF elem_type = NoneType THEN NoneType ELSE ArrayType(elem_type)
      [] self.kind = "StructType" ->
            IF other.kind # "StructType" \/ self.name # other.name
              THEN NoneType
              ELSE IF DOMAIN self.fields # DOMAIN other.fields
                     THEN NoneType
                     ELSE LET unified_fields ==
                                  [key \in DOMAIN self.fields |->
                                      unify(self.fields[key], other.fields[key])]
                          IN IF \E key \in DOMAIN self.fields :
                                    unified_fields[key] = NoneType
                               THEN NoneType
                               ELSE StructType(self.name, unified_fields)
      [] self.kind = "TupleType" ->
            IF other.kind # "TupleType"
              THEN NoneType
              ELSE IF Len(self.element_types) # Len(other.element_types)
                     THEN NoneType
                     ELSE LET unified_elements ==
                                  UnifyEach(self.element_types, other.element_types, 1)
                          IN IF \E i \in 1..Len(unified_elements) :
                                    unified_elements[i] = NoneType
                               THEN NoneType
                               ELSE TupleType(unified_elements)
      [] self.kind = "FunctionType" ->
            IF other.kind # "FunctionType"
              THEN NoneType
              ELSE IF Len(self.param_types) # Len(other.param_types)
                     THEN NoneType
                     ELSE LET unified_params ==
                                  UnifyEach(self.param_types, other.param_types, 1)
                              unified_return ==
                                  unify(self.return_type, other.return_type)
                          IN IF \/ \E i \in 1..Len(unified_params) :
                                       unified_params[i] = NoneType
                                \/ unified_return = NoneType
                               THEN NoneType
                               ELSE FunctionType(unified_params, unified_return)
      [] OTHER -> IF TypeEq(self, other) THEN self ELSE NoneType

\* a.unify(b) for the pairs of zip(these, those), from the i-th on
UnifyEach(these, those, i) ==
    IF i > Len(these) THEN <<>>
    ELSE <<unify(these[i], those[i])>> \o UnifyEach(these, those, i + 1)

TypInit ==
    tlast = [op |-> "init", a |-> NoneType, b |-> NoneType,
             type |-> NoneType, holds |-> FALSE]

\* a.unify(b)
Type_unify(a, b) ==
    /\ UNCHANGED nonTypVars
    /\ tlast' = [op |-> "unify", a |-> a, b |-> b,
                 type |-> unify(a, b), holds |-> FALSE]

\* a.is_subtype_of(b)
Type_is_subtype_of(a, b) ==
    /\ UNCHANGED nonTypVars
    /\ tlast' = [op |-> "is_subtype_of", a |-> a, b |-> b,
                 type |-> NoneType, holds |-> is_subtype_of(a, b)]

TypNext ==
    \/ \E a \in Types, b \in Types : Type_unify(a, b)
    \/ \E a \in Types, b \in Types : Type_is_subtype_of(a, b)

\* ---------------------------------------------------------------------
\* ir/ir_nodes.py: IR nodes; ir/ir_optimizer.py: IROptimizer
\* ---------------------------------------------------------------------

MaxStmts == 2
MaxPasses == 2

\* Python numbers: int, bool and float values as a fraction num/den in
\* lowest terms with den > 0; ty is type(value).__name__
RECURSIVE Gcd(_, _)
Gcd(a, b) == IF b = 0 THEN a ELSE Gcd(b, a % b)
Abs(n) == IF n < 0 THEN -n ELSE n
Number(ty, num, den) ==
    LET g == Gcd(Abs(num), den)
    IN [ty |-> ty, num |-> num \div g, den |-> den \div g]
IntVal(n) == [ty |-> "int", num |-> n, den |-> 1]
BoolVal(b) == [ty |-> "bool", num |-> IF b THEN 1 ELSE 0, den |-> 1]
EvalRaised == [ty |-> "raised", num |-> 0, den |-> 1]
ArithType(l, r) == IF "float" \in {l.ty, r.ty} THEN "float" ELSE "int"

\* IROptimizer._evaluate_binary_op: ops[operator_str](left_val, right_val);
\* EvalRaised for ValueError (no such operator) and ZeroDivisionError
IR_evaluate_binary_op(operator_str, l, r) ==
    CASE operator_str = "+" ->
            Number(ArithType(l, r), l.num * r.den + r.num * l.den, l.den * r.den)
      [] operator_str = "*" ->
            Number(ArithType(l, r), l.num * r.num, l.den * r.den)
      [] operator_str = "/" ->
            IF r.num = 0
              THEN EvalRaised
              ELSE IF r.num > 0
                     THEN Number("float", l.num * r.den, l.den * r.num)
                     ELSE Number("float", -(l.num * r.den), -(l.den * r.num))
      [] operator_str = "<" -> BoolVal(l.num * r.den < r.num * l.den)
      [] OTHER -> EvalRaised

ConstantNode(value, const_type) ==
    [node_type |-> "CONSTANT", children |-> <<>>,
     value |-> value, const_type |-> const_type]
VariableNode(name) ==
    [node_type |-> "VARIABLE", children |-> <<>>, name |-> name]
BinaryOpNode(operator, left, right) ==
    [node_type |-> "EXPRESSION", children |-> <<left, right>>,
     operator |-> operator, left |-> left, right |-> right]
AssignmentNode(target, value) ==
    [node_type |-> "ASSIGNMENT", children |-> <<target, value>>,
     target |-> target, value |-> value]
ReturnNode(value) ==
    [node_type |-> "RETURN", children |-> <<value>>, value |-> value]
BlockNode(statements) ==
    [node_type |-> "BLOCK", children |-> statements, statements |-> statements]
FunctionNode(name, body) ==
    [node_type |-> "FUNCTION", children |-> body, name |-> name]
IfNode(condition, then_body, else_body) ==
    [node_type |-> "IF", children |-> <<condition>> \o then_body \o else_body,
     condition |-> condition, then_body |-> then_body, else_body |-> else_body]
NoNode == [node_type |-> "None", children |-> <<>>]

\* A field of a node (left, value, statements, ...) holds the object the
\* children list was built from. A pass replaces node.children by what it
\* returns for each child and never assigns the fields: a field keeps its
\* object, which is child i as the pass has changed it in place
\* (originals[i]) as long as the field and children[i] are one object; a
\* child the pass did not visit is beyond the end of originals.
Alias(field, children, originals, i) ==
    IF i <= Len(originals) /\ i <= Len(children) /\ field = children[i]
      THEN originals[i]
      ELSE field

AliasEach(fields, children, originals, offset) ==
    [j \in 1..Len(fields) |-> Alias(fields[j], children, originals, offset + j)]

ReplaceChildren(node, new_children, originals) ==
    LET c == node.children
        changed == [node EXCEPT !.children = new_children]
    IN CASE node.node_type = "EXPRESSION" ->
               [changed EXCEPT !.left = Alias(node.left, c, originals, 1),
                               !.right = Alias(node.right, c, originals, 2)]
         [] node.node_type = "ASSIGNMENT" ->
               [changed EXCEPT !.target = Alias(node.target, c, originals, 1),
                               !.value = Alias(node.value, c, originals, 2)]
         [] node.node_type = "RETURN" ->
               [changed EXCEPT !.value = Alias(node.value, c, originals, 1)]
         [] node.node_type = "BLOCK" ->
               [changed EXCEPT
                  !.statements = AliasEach(node.statements, c, originals, 0)]
         [] node.node_type = "IF" ->
               [changed EXCEPT
                  !.condition = Alias(node.condition, c, originals, 1),
                  !.then_body = AliasEach(node.then_body, c, originals, 1),
                  !.else_body = AliasEach(node.else_body, c, originals,
                                          1 + Len(node.then_body))]
         [] OTHER -> changed

\* IROptimizer._is_constant_node
IR_is_constant_node(node) == node.node_type = "CONSTANT"

\* IROptimizer._fold_binary_op: the node it returns
IR_fold_binary_op(node) ==
    IF ~({"left", "right", "operator"} \subseteq DOMAIN node)
      THEN node
      ELSE IF IR_is_constant_node(node.left) /\ IR_is_constant_node(node.right)
             THEN LET value == IR_evaluate_binary_op(node.operator,
                                   node.left.value, node.right.value)
                  IN IF value = EvalRaised
                       THEN node
                       ELSE ConstantNode(value, value.ty)
             ELSE node

\* IROptimizer.constant_folding_pass(node): ret is the node returned, obj
\* the object passed in as the pass leaves it, same whether ret is that
\* object
RECURSIVE Fold(_)
RECURSIVE FoldEach(_, _)
FoldEach(nodes, n) ==
    IF n = 0 THEN <<>> ELSE Append(FoldEach(nodes, n - 1), Fold(nodes[n]))

Rets(results) == [i \in 1..Len(results) |-> results[i].ret]
Objs(results) == [i \in 1..Len(results) |-> results[i].obj]

\* object i after a second pass over what the first pass returned for it
Originals(first, again) ==
    [i \in 1..Len(first) |-> IF first[i].same THEN again[i].obj ELSE first[i].obj]

Fold(node) ==
    LET first == FoldEach(node.children, Len(node.children))
    IN CASE node.node_type = "EXPRESSION" ->
                LET node1 == ReplaceChildren(node, Rets(first), Objs(first))
                    folded == IR_fold_binary_op(node1)
                IN [ret |-> folded, obj |-> node1,
                    same |-> folded.node_type = "EXPRESSION"]
         [] node.node_type = "ASSIGNMENT" ->
                LET again == <<first[1], Fold(first[2].ret)>>
                    node2 == ReplaceChildren(node, <<first[1].ret, again[2].ret>>,
                                             Originals(first, again))
                IN [ret |-> node2, obj |-> node2, same |-> TRUE]
         [] node.node_type \in {"FUNCTION", "BLOCK"} ->
                LET again == FoldEach(Rets(first), Len(first))
                    node2 == ReplaceChildren(node, Rets(again),
                                             Originals(first, again))
                IN [ret |-> node2, obj |-> node2, same |-> TRUE]
         [] OTHER ->
                LET node1 == ReplaceChildren(node, Rets(first), Objs(first))
                IN [ret |-> node1, obj |-> node1, same |-> TRUE]

constant_folding_pass(node) == Fold(node).ret

\* index of the first statement that is a return, 0 when there is none
RECURSIVE FirstReturn(_, _)
FirstReturn(statements, i) ==
    IF i > Len(statements)
      THEN 0
      ELSE IF statements[i].node_type = "RETURN" THEN i
           ELSE FirstReturn(statements, i + 1)

\* number of statements _eliminate_dead_code_block keeps
Kept(statements) ==
    IF FirstReturn(statements, 1) = 0 THEN Len(statements)
                                      ELSE FirstReturn(statements, 1)

\* IROptimizer.dead_code_elimination_pass, with _eliminate_dead_code_block:
\* the node is returned itself, changed in place
RECURSIVE dead_code_elimination_pass(_)
RECURSIVE DceEach(_, _)
DceEach(statements, k) ==
    IF k = 0
      THEN <<>>
      ELSE Append(DceEach(statements, k - 1),
                  dead_code_elimination_pass(statements[k]))

dead_code_elimination_pass(node) ==
    IF node.node_type \in {"FUNCTION", "BLOCK"}
      THEN LET new_statements == DceEach(node.children, Kept(node.children))
           IN ReplaceChildren(node, new_statements, new_statements)
      ELSE node

\* IROptimizer.optimize: the passes in order
optimize(node) == dead_code_elimination_pass(constant_folding_pass(node))

\* the IR trees the optimizer is constructed with
IntConstants == {ConstantNode(IntVal(n), "int") : n \in {0, 2, 3, 4}}
BoolConstants == {ConstantNode(BoolVal(b), "bool") : b \in BOOLEAN}
VarX == VariableNode("x")
Operators == {"+", "*", "/"}
FlatExprs == {BinaryOpNode(o, a, b) : o \in Operators, a \in IntConstants,
                                      b \in IntConstants}
NestedExprs ==
    {BinaryOpNode(o, a, e) : o \in Operators, a \in IntConstants, e \in FlatExprs}
    \cup {BinaryOpNode(o, e, a) : o \in Operators, a \in IntConstants,
                                  e \in FlatExprs}
Conditions ==
    BoolConstants \cup {VarX}
    \cup {BinaryOpNode("<", ConstantNode(IntVal(a), "int"),
                            ConstantNode(IntVal(b), "int")) : a \in {2, 3}, b \in {2, 3}}
Return1 == ReturnNode(ConstantNode(IntVal(1), "int"))
AssignX2 == AssignmentNode(VarX, ConstantNode(IntVal(2), "int"))
AssignSum ==
    AssignmentNode(VarX, BinaryOpNode("+", ConstantNode(IntVal(2), "int"),
                                           ConstantNode(IntVal(3), "int")))
SimpleStmts == {Return1, AssignX2, AssignSum}
StmtLists(S) == UNION {[1..n -> S] : n \in 0..MaxStmts}
SimpleBlocks == {BlockNode(s) : s \in StmtLists(SimpleStmts)}
DeadBlock == BlockNode(<<Return1, AssignX2>>)
Ifs == {IfNode(c, <<t>>, e) : c \in Conditions, t \in {AssignSum, DeadBlock},
                              e \in {<<>>, <<AssignX2>>}}
NestedBlocks == {BlockNode(<<s>> \o t) : s \in Ifs \cup {DeadBlock},
                                         t \in {<<>>, <<AssignX2>>}}
Functions == {FunctionNode("f", s) : s \in StmtLists(SimpleStmts \cup {DeadBlock})}
IRTrees == FlatExprs \cup NestedExprs \cup SimpleBlocks \cup Ifs
               \cup NestedBlocks \cup Functions

\* ---------------------------------------------------------------------
\* core/ast_nodes.py: AST nodes; core/optimizer.py: Optimizer;
\* core/interpreter.py: Interpreter.visit_binary_op
\* ---------------------------------------------------------------------

\* a Python str where a node is expected
Str(s) == [type |-> "str", str |-> s]
NoneValue == [ty |-> "NoneType", num |-> 0, den |-> 1]

\* the constructors, with the parameter order of core/ast_nodes.py
AstLiteralNode(value) == [type |-> "LiteralNode", value |-> value]
AstVariableNode(name) == [type |-> "VariableNode", name |-> name]
AstBinaryOpNode(left, operator, right) ==
    [type |-> "BinaryOpNode", left |-> left, operator |-> operator, right |-> right]
AstAssignmentNode(target, value) ==
    [type |-> "AssignmentNode", target |-> target, value |-> value]

\* Optimizer._evaluate_binary_op: None for an operator it does not know,
\* for a division by zero and for any exception
Optimizer_evaluate_binary_op(operator, l, r) ==
    IF operator.type # "str"
      THEN NoneValue
      ELSE CASE operator.str = "+" ->
                   Number(ArithType(l, r), l.num * r.den + r.num * l.den,
                          l.den * r.den)
             [] operator.str = "*" ->
                   Number(ArithType(l, r), l.num * r.num, l.den * r.den)
             [] operator.str = "/" ->
                   IF r.num = 0
                     THEN NoneValue
                     ELSE IF r.num > 0
                            THEN Number("float", l.num * r.den, l.den * r.num)
                            ELSE Number("float", -(l.num * r.den), -(l.den * r.num))
             [] OTHER -> NoneValue

\* Optimizer.constant_folding(node)
RECURSIVE constant_folding(_)
constant_folding(node) ==
    CASE node.type = "BinaryOpNode" ->
            LET left == constant_folding(node.left)
                right == constant_folding(node.right)
                folded_value ==
                    Optimizer_evaluate_binary_op(node.operator, left.value, right.value)
            IN IF /\ left.type = "LiteralNode"
                  /\ right.type = "LiteralNode"
                  /\ folded_value # NoneValue
                 THEN AstLiteralNode(folded_value)
                 ELSE AstBinaryOpNode(node.operator, left, right)
      [] node.type = "AssignmentNode" ->
            [node EXCEPT !.value = constant_folding(node.value)]
      [] OTHER -> node

\* what node.accept(interpreter) does for an expression: the value it
\* returns or the exception it raises
Returned(value) == [raised |-> "none", message |-> "", value |-> value]
Raised(kind, message) == [raised |-> kind, message |-> message, value |-> NoneValue]

RECURSIVE accept(_)
accept(node) ==
    CASE node.type = "LiteralNode" -> Returned(node.value)
      [] node.type = "VariableNode" ->
            Raised("RuntimeError", "Undefined variable")
      [] node.type = "BinaryOpNode" ->
            LET left == accept(node.left)
                right == accept(node.right)
                op == node.operator
            IN IF left.raised # "none" THEN left
               ELSE IF right.raised # "none" THEN right
               ELSE IF op.type # "str"
                 THEN Raised("RuntimeError", "Unknown binary operator")
               ELSE IF op.str = "/" /\ right.value.num = 0
                 THEN Raised("RuntimeError", "Division by zero")
               ELSE LET value == Optimizer_evaluate_binary_op(op, left.value,
                                                              right.value)
                    IN IF value = NoneValue
                         THEN Raised("RuntimeError", "Unknown binary operator")
                         ELSE Returned(value)
      [] OTHER -> Raised("AttributeError", "object has no attribute 'accept'")

AstLiterals == {AstLiteralNode(IntVal(n)) : n \in {0, 2, 3}}
AstOperands == AstLiterals \cup {AstVariableNode("x")}
AstOperators == {Str("+"), Str("/")}
AstFlatExprs == {AstBinaryOpNode(a, o, b) : a \in AstOperands, o \in AstOperators,
                                            b \in AstOperands}
AstNestedExprs == {AstBinaryOpNode(e, o, b) : e \in AstFlatExprs,
                                              o \in AstOperators, b \in AstLiterals}
AstTrees == AstFlatExprs \cup AstNestedExprs
                \cup {AstAssignmentNode(AstVariableNode("x"), e) : e \in AstFlatExprs}

OptInit ==
    /\ ir_root = NoNode
    /\ ast = NoNode
    /\ oplog = <<>>
    /\ olast = [op |-> "init", before |-> NoNode, after |-> NoNode]

\* IROptimizer(ir_root)
IROptimizer_init(tree) ==
    /\ ir_root = NoNode
    /\ ast = NoNode
    /\ UNCHANGED <<nonOptVars, ast>>
    /\ ir_root' = tree
    /\ oplog' = <<>>
    /\ olast' = [op |-> "IROptimizer", before |-> NoNode, after |-> tree]

\* self.ir_root = self.constant_folding_pass(self.ir_root)
IROptimizer_constant_folding_pass ==
    /\ ir_root # NoNode
    /\ Len(oplog) < MaxPasses
    /\ UNCHANGED <<nonOptVars, ast>>
    /\ ir_root' = constant_folding_pass(ir_root)
    /\ oplog' = Append(oplog, "constant_folding_pass")
    /\ olast' = [op |-> "constant_folding_pass", before |-> ir_root,
                 after |-> ir_root']

\* self.ir_root = self.dead_code_elimination_pass(self.ir_root)
IROptimizer_dead_code_elimination_pass ==
    /\ ir_root # NoNode
    /\ Len(oplog) < MaxPasses
    /\ UNCHANGED <<nonOptVars, ast>>
    /\ ir_root' = dead_code_elimination_pass(ir_root)
    /\ oplog' = Append(oplog, "dead_code_elimination_pass")
    /\ olast' = [op |-> "dead_code_elimination_pass", before |-> ir_root,
                 after |-> ir_root']

\* self.optimize()
IROptimizer_optimize ==
    /\ ir_root # NoNode
    /\ Len(oplog) < MaxPasses
    /\ UNCHANGED <<nonOptVars, ast>>
    /\ ir_root' = optimize(ir_root)
    /\ oplog' = Append(oplog, "optimize")
    /\ olast' = [op |-> "optimize", before |-> ir_root, after |-> ir_root']

\* the parser hands an AST to the caller of Optimizer and Interpreter
parse(tree) ==
    /\ ir_root = NoNode
    /\ ast = NoNode
    /\ UNCHANGED <<nonOptVars, ir_root>>
    /\ ast' = tree
    /\ oplog' = <<>>
    /\ olast' = [op |-> "parse", before |-> NoNode, after |-> tree]

\* ast = optimizer.constant_folding(ast)
Optimizer_constant_folding ==
    /\ ast # NoNode
    /\ Len(oplog) < MaxPasses
    /\ UNCHANGED <<nonOptVars, ir_root>>
    /\ ast' = constant_folding(ast)
    /\ oplog' = Append(oplog, "constant_folding")
    /\ olast' = [op |-> "constant_folding", before |-> ast, after |-> ast']

\* interpreter.visit_binary_op(ast)
Interpreter_visit_binary_op ==
    /\ ast # NoNode
    /\ ast.type = "BinaryOpNode"
    /\ Len(oplog) < MaxPasses + 1
    /\ IF oplog = <<>> THEN TRUE ELSE Last(oplog) # "visit_binary_op"
    /\ UNCHANGED <<nonOptVars, ir_root, ast>>
    /\ oplog' = Append(oplog, "visit_binary_op")
    /\ olast' = [op |-> "visit_binary_op", before |-> ast, after |-> accept(ast)]

OptNext ==
    \/ \E tree \in IRTrees : IROptimizer_init(tree)
    \/ IROptimizer_constant_folding_pass
    \/ IROptimizer_dead_code_elimination_pass
    \/ IROptimizer_optimize
    \/ \E tree \in AstTrees : parse(tree)
    \/ Optimizer_constant_folding
    \/ Interpreter_visit_binary_op

\* ---------------------------------------------------------------------
\* ir/ir_to_runtime.py: IRToRuntime
\* ---------------------------------------------------------------------

MaxArgs == 2

WhileNode(condition, body) ==
    [node_type |-> "WHILE", children |-> <<condition>> \o body,
     condition |-> condition, body |-> body]
CallNode(function_name, arguments) ==
    [node_type |-> "CALL", children |-> arguments,
     function_name |-> function_name, arguments |-> arguments]

\* one instruction: its mnemonic, its operand and, for CALL and labels, a number
Instr(op, arg, n) == [op |-> op, arg |-> arg, n |-> n]

\* what _emit_node has done so far: the instructions appended, the exception
\* raised ("none" for a normal return) and self._label_counter
Emitted(code, raised, counter) ==
    [code |-> code, raised |-> raised, counter |-> counter]

\* IRToRuntime._map_operator_to_instr
map_operator_to_instr(operator_str) ==
    CASE operator_str = "+" -> "ADD"
      [] operator_str = "-" -> "SUB"
      [] operator_str = "*" -> "MUL"
      [] operator_str = "/" -> "DIV"
      [] operator_str = "%" -> "MOD"
      [] operator_str = "==" -> "EQ"
      [] operator_str = "!=" -> "NEQ"
      [] operator_str = "<" -> "LT"
      [] operator_str = "<=" -> "LTE"
      [] operator_str = ">" -> "GT"
      [] operator_str = ">=" -> "GTE"
      [] operator_str = "and" -> "AND"
      [] operator_str = "or" -> "OR"
      [] OTHER -> "ValueError"

\* IRToRuntime._emit_node(node), continuing from the emission `e`
RECURSIVE emit_node(_, _)
RECURSIVE EmitEach(_, _, _)
EmitEach(nodes, i, e) ==
    IF i > Len(nodes) \/ e.raised # "none"
      THEN e
      ELSE EmitEach(nodes, i + 1, emit_node(nodes[i], e))

Emit(e, instr) == [e EXCEPT !.code = Append(@, instr)]
EmitRaise(e, kind) == [e EXCEPT !.raised = kind]
Then(e, instr) == IF e.raised # "none" THEN e ELSE Emit(e, instr)

emit_node(node, e) ==
    CASE node.node_type = "FUNCTION" ->
            Then(EmitEach(node.children, 1,
                          Emit(e, Instr("FUNC_START", node.name, 0))),
                 Instr("FUNC_END", "", 0))
      [] node.node_type = "ASSIGNMENT" ->
            Then(emit_node(node.children[2], e),
                 Instr("STORE", node.children[1].name, 0))
      [] node.node_type = "VARIABLE" -> Emit(e, Instr("LOAD", node.name, 0))
      [] node.node_type = "CONSTANT" -> Emit(e, Instr("PUSH_CONST", "None", 0))
      [] node.node_type = "BINARY_OP" ->
            LET operands == emit_node(node.right, emit_node(node.left, e))
                op_instr == map_operator_to_instr(node.operator)
            IN IF operands.raised # "none" THEN operands
               ELSE IF op_instr = "ValueError" THEN EmitRaise(operands, "ValueError")
               ELSE Emit(operands, Instr(op_instr, "", 0))
      [] node.node_type = "CALL" ->
            Then(EmitEach(node.arguments, 1, e),
                 Instr("CALL", node.function_name, Len(node.arguments)))
      [] node.node_type = "RETURN" ->
            IF node.children # <<>>
              THEN Then(emit_node(node.children[1], e), Instr("RETURN", "", 0))
              ELSE Emit(Emit(e, Instr("PUSH_CONST", "None", 0)),
                        Instr("RETURN", "", 0))
      [] node.node_type = "IF" ->
            LET labelled == [e EXCEPT !.counter = @ + 2]
                cond == Then(emit_node(node.condition, labelled),
                             Instr("JUMP_IF_FALSE", "else", e.counter + 1))
            \* node.then_block: an IfNode has then_body and else_body only
            IN IF cond.raised # "none"
                 THEN cond
                 ELSE EmitRaise(cond, "AttributeError")
      [] node.node_type = "WHILE" ->
            LET start == e.counter + 1
                end == e.counter + 2
                labelled == Emit([e EXCEPT !.counter = @ + 2],
                                 Instr("LABEL", "while_start", start))
                cond == Then(emit_node(node.condition, labelled),
                             Instr("JUMP_IF_FALSE", "while_end", end))
                body == EmitEach(node.body, 1, cond)
            IN Then(Then(body, Instr("JUMP", "while_start", start)),
                    Instr("LABEL", "while_end", end))
      [] node.node_type = "BLOCK" -> EmitEach(node.children, 1, e)
      [] OTHER -> EmitRaise(e, "NotImplementedError")

\* the IR trees given to the emitter, each with the role the node has in
\* the program it was built from: an expression or a statement
ArgLists_IR == UNION {[1..n -> {ConstantNode(IntVal(2), "int"), VarX}] : n \in 0..MaxArgs}
Calls == {CallNode("f", args) : args \in ArgLists_IR}
EmitExprs == IntConstants \cup {VarX} \cup FlatExprs \cup Calls
Assignments ==
    {AssignmentNode(VarX, v) :
        v \in {ConstantNode(IntVal(2), "int"), VarX, CallNode("f", <<>>)}}
        \cup {AssignSum}
Whiles == {WhileNode(c, b) : c \in {VarX, ConstantNode(BoolVal(TRUE), "bool")},
                             b \in {<<>>, <<AssignX2>>}}
\* control constructs inside control constructs
NestedWhiles ==
    {WhileNode(VarX, <<w>> \o t) : w \in Whiles \cup Ifs,
                                  t \in {<<>>, <<WhileNode(VarX, <<>>)>>}}
\* IRBuilder._build_vardecl: a variable declaration is its VariableNode
VarDecl == VarX
EmitStmts == {VarDecl, Return1} \cup Assignments \cup Calls \cup Ifs \cup Whiles
                 \cup NestedWhiles \cup SimpleBlocks
EmitInputs == {[role |-> "expression", node |-> n] : n \in EmitExprs}
                  \cup {[role |-> "statement", node |-> n] : n \in EmitStmts}
NoInput == [role |-> "none", node |-> NoNode]

EmitInit ==
    /\ emit_root = NoInput
    /\ bytecode = <<>>
    /\ elast = [op |-> "init", raised |-> "none"]
    /\ instructions = <<>>
    /\ label_count = 0

\* IRToRuntime(ir_root)
IRToRuntime_init(input) ==
    /\ emit_root = NoInput
    /\ UNCHANGED <<nonEmitVars, instructions, label_count>>
    /\ emit_root' = input
    /\ bytecode' = <<>>
    /\ elast' = [op |-> "IRToRuntime", raised |-> "none"]

\* self.compile(): self._emit_node(self.ir_root); what was emitted before an
\* exception stays in self.bytecode
IRToRuntime_compile ==
    /\ emit_root # NoInput
    /\ elast.op = "IRToRuntime"
    /\ UNCHANGED <<nonEmitVars, emit_root, instructions, label_count>>
    /\ LET e == emit_node(emit_root.node, Emitted(bytecode, "none", 0))
       IN /\ bytecode' = e.code
          /\ elast' = [op |-> "compile", raised |-> e.raised]

\* core/ast_nodes.py: the statements the Compiler visits
AstBlockNode(statements) == [type |-> "BlockNode", statements |-> statements]
AstIfNode(condition, then_branch, else_branch) ==
    [type |-> "IfNode", condition |-> condition, then_branch |-> then_branch,
     else_branch |-> else_branch]
AstWhileNode(condition, body) ==
    [type |-> "WhileNode", condition |-> condition, body |-> body]

Compiled(instrs, raised, count) ==
    [instructions |-> instrs, raised |-> raised, label_count |-> count]

\* core/compiler.py: Compiler.visit_*. The module ir_nodes defines none of
\* the instruction classes the visitors name (ir.IRLoadConst, ir.IRLoadVar,
\* ir.IRLabel, ir.IRJumpIfFalse, ...): the attribute lookup raises
\* AttributeError before anything is appended to self.instructions
RECURSIVE Compiler_visit(_, _), CompileEach(_, _, _)
Compiler_visit(node, k) ==
    CASE node.type = "BlockNode" -> CompileEach(node.statements, 1, k)
      [] node.type = "IfNode" ->
            LET cond == Compiler_visit(node.condition, k)
            IN IF cond.raised # "none"
                 THEN cond
                 ELSE Compiled(cond.instructions, "AttributeError",
                               cond.label_count + 2)
      [] node.type = "WhileNode" ->
            Compiled(k.instructions, "AttributeError", k.label_count + 2)
      [] OTHER -> Compiled(k.instructions, "AttributeError", k.label_count)

CompileEach(statements, i, k) ==
    IF i > Len(statements) \/ k.raised # "none"
      THEN k
      ELSE CompileEach(statements, i + 1, Compiler_visit(statements[i], k))

AstBlocks == {AstBlockNode(s) : s \in {<<>>, <<AstLiteralNode(IntVal(2))>>}}
AstWhiles == {AstWhileNode(c, b) : c \in AstOperands, b \in AstBlocks}
AstIfs == {AstIfNode(c, t, e) : c \in AstOperands, t \in AstBlocks,
                                e \in AstBlocks \cup {NoNode}}
AstNests == {AstBlockNode(<<AstBlockNode(<<>>), s>>) : s \in AstWhiles \cup AstIfs}
                \cup {AstWhileNode(AstVariableNode("x"), AstBlockNode(<<s>>)) :
                         s \in AstWhiles \cup AstIfs}
AstStatements == AstBlocks \cup AstWhiles \cup AstIfs \cup AstNests

\* Compiler().compile(node): clears the instructions and the counters, then
\* node.accept(self)
Compiler_compile(node) ==
    /\ elast.op = "init"
    /\ UNCHANGED <<nonEmitVars, emit_root, bytecode>>
    /\ LET k == Compiler_visit(node, Compiled(<<>>, "none", 0))
       IN /\ instructions' = k.instructions
          /\ label_count' = k.label_count
          /\ elast' = [op |-> "Compiler_compile", raised |-> k.raised]

EmitNext ==
    \/ \E input \in EmitInputs : IRToRuntime_init(input)
    \/ IRToRuntime_compile
    \/ \E node \in AstStatements : Compiler_compile(node)

\* ---------------------------------------------------------------------
\* core/tokenizer.py: Tokenizer
\* ---------------------------------------------------------------------

MaxSourceLen == 3

\* str.isspace, str.isalpha and str.isdigit on the characters of the model
Spaces == {" ", "\n", "\t", "\r"}
Letters == {"a", "b", "c", "d", "e", "f", "g", "h", "i", "j", "k", "l", "m", "n",
            "o", "p", "q", "r", "s", "t", "u", "v", "w", "x", "y", "z"}
Digits == {"0", "1", "2", "3", "4", "5", "6", "7", "8", "9"}

\* current_char is None
NoChar == "None"

\* the values a token carries: a str, an int, a float (both as the decimal
\* digits Python prints for them) or None
PyStr(chars) == [kind |-> "str", chars |-> chars]
PyInt(digits) == [kind |-> "int", digits |-> digits]
PyFloat(whole, frac) == [kind |-> "float", whole |-> whole, frac |-> frac]
PyNone == [kind |-> "None"]

Token(type_, value, line, column) ==
    [type |-> type_, value |-> value, line |-> line, column |-> column]
NoToken == Token("None", PyNone, 0, 0)

\* the tokenizer's position, line and column
Cursor(position, line, column) ==
    [position |-> position, line |-> line, column |-> column]

\* self.source[position], None past the end
CharAt(source, position) ==
    IF position < Len(source) THEN source[position + 1] ELSE NoChar

\* Tokenizer.advance
Tokenizer_advance(source, c) ==
    LET newline == CharAt(source, c.position) = "\n"
    IN Cursor(c.position + 1,
              IF newline THEN c.line + 1 ELSE c.line,
              (IF newline THEN 0 ELSE c.column) + 1)

\* Tokenizer.peek
Tokenizer_peek(source, c) == CharAt(source, c.position + 1)

\* what a scanning method leaves: the cursor, the token it returns and the
\* error it raised ("none" for a normal return)
Scanned(c, token, raised) == [cursor |-> c, token |-> token, raised |-> raised]

RECURSIVE skip_whitespace(_, _)
skip_whitespace(source, c) ==
    IF CharAt(source, c.position) \in Spaces
      THEN skip_whitespace(source, Tokenizer_advance(source, c))
      ELSE Scanned(c, NoToken, "none")

RECURSIVE SkipToLineEnd(_, _)
SkipToLineEnd(source, c) ==
    IF CharAt(source, c.position) \notin {NoChar, "\n"}
      THEN SkipToLineEnd(source, Tokenizer_advance(source, c))
      ELSE Scanned(c, NoToken, "none")

skip_line_comment(source, c) ==
    SkipToLineEnd(source, Tokenizer_advance(source, Tokenizer_advance(source, c)))

RECURSIVE SkipToCommentEnd(_, _)
SkipToCommentEnd(source, c) ==
    IF CharAt(source, c.position) = NoChar
      THEN Scanned(c, NoToken, "TokenizerError")
      ELSE IF CharAt(source, c.position) = "*" /\ Tokenizer_peek(source, c) = "/"
             THEN Scanned(Tokenizer_advance(source, Tokenizer_advance(source, c)),
                          NoToken, "none")
             ELSE SkipToCommentEnd(source, Tokenizer_advance(source, c))

skip_block_comment(source, c) ==
    SkipToCommentEnd(source, Tokenizer_advance(source, Tokenizer_advance(source, c)))

\* KEYWORDS.get(ident_str, TokenType.IDENTIFIER)
KeywordType(ident) ==
    CASE ident = <<"i", "f">> -> "IF"
      [] ident = <<"w", "h", "i", "l", "e">> -> "WHILE"
      [] ident = <<"f", "n">> -> "FN"
      [] ident = <<"t", "r", "u", "e">> -> "TRUE"
      [] ident = <<"f", "a", "l", "s", "e">> -> "FALSE"
      [] ident = <<"r", "e", "t", "u", "r", "n">> -> "RETURN"
      [] ident = <<"l", "e", "t">> -> "LET"
      [] OTHER -> "IDENTIFIER"

RECURSIVE ScanIdentifier(_, _, _)
ScanIdentifier(source, c, ident) ==
    LET ch == CharAt(source, c.position)
    IN IF ch \in Letters \cup Digits \cup {"_"}
         THEN ScanIdentifier(source, Tokenizer_advance(source, c), Append(ident, ch))
         ELSE [cursor |-> c, ident |-> ident]

tokenize_identifier_or_keyword(source, c) ==
    LET scan == ScanIdentifier(source, c, <<>>)
    IN Scanned(scan.cursor,
               Token(KeywordType(scan.ident), PyStr(scan.ident), c.line, c.column),
               "none")

\* int(num_value) and float(num_value), as the decimal digits of the number
RECURSIVE StripLeadingZeros(_)
StripLeadingZeros(digits) ==
    IF Len(digits) > 1 /\ digits[1] = "0"
      THEN StripLeadingZeros(Tail(digits))
      ELSE digits
RECURSIVE StripTrailingZeros(_)
StripTrailingZeros(digits) ==
    IF Len(digits) > 1 /\ digits[Len(digits)] = "0"
      THEN StripTrailingZeros(SubSeq(digits, 1, Len(digits) - 1))
      ELSE digits
RECURSIVE DotAt(_, _)
DotAt(num_str, i) ==
    IF i > Len(num_str) THEN 0
    ELSE IF num_str[i] = "." THEN i ELSE DotAt(num_str, i + 1)
ToInt(num_str) == PyInt(StripLeadingZeros(num_str))
ToFloat(num_str) ==
    LET dot == DotAt(num_str, 1)
        frac == SubSeq(num_str, dot + 1, Len(num_str))
    IN PyFloat(StripLeadingZeros(SubSeq(num_str, 1, dot - 1)),
               IF frac = <<>> THEN <<"0">> ELSE StripTrailingZeros(frac))

RECURSIVE ScanNumber(_, _, _, _)
ScanNumber(source, c, num_str, has_dot) ==
    LET ch == CharAt(source, c.position)
    IN IF ch \in Digits \cup {"."}
         THEN IF ch = "." /\ has_dot
                THEN [cursor |-> c, num_str |-> num_str, has_dot |-> has_dot,
                      raised |-> "TokenizerError"]
                ELSE ScanNumber(source, Tokenizer_advance(source, c),
                                Append(num_str, ch), has_dot \/ ch = ".")
         ELSE [cursor |-> c, num_str |-> num_str, has_dot |-> has_dot,
               raised |-> "none"]

tokenize_number(source, c) ==
    LET scan == ScanNumber(source, c, <<>>, FALSE)
    IN IF scan.raised # "none"
         THEN Scanned(scan.cursor, NoToken, scan.raised)
         ELSE Scanned(scan.cursor,
                      Token("NUMBER",
                            IF scan.has_dot THEN ToFloat(scan.num_str)
                                            ELSE ToInt(scan.num_str),
                            c.line, c.column),
                      "none")

\* Tokenizer.handle_escape: the character an escape stands for
handle_escape(ch) ==
    CASE ch = "n" -> "\n"
      [] ch = "t" -> "\t"
      [] ch = "r" -> "\r"
      [] OTHER -> ch

RECURSIVE ScanString(_, _, _, _)
ScanString(source, c, quote_char, string_chars) ==
    LET ch == CharAt(source, c.position)
        escaped == Tokenizer_advance(source, c)
    IN IF ch \in {NoChar, quote_char}
         THEN [cursor |-> c, string_chars |-> string_chars, raised |-> "none"]
         ELSE IF ch = "\\"
           THEN IF CharAt(source, escaped.position) = NoChar
                  THEN [cursor |-> escaped, string_chars |-> string_chars,
                        raised |-> "TokenizerError"]
                  ELSE ScanString(source, Tokenizer_advance(source, escaped), quote_char,
                                  Append(string_chars,
                                         handle_escape(CharAt(source, escaped.position))))
           ELSE ScanString(source, escaped, quote_char, Append(string_chars, ch))

tokenize_string(source, c) ==
    LET quote_char == CharAt(source, c.position)
        scan == ScanString(source, Tokenizer_advance(source, c), quote_char, <<>>)
    IN IF scan.raised # "none"
         THEN Scanned(scan.cursor, NoToken, scan.raised)
         ELSE IF CharAt(source, scan.cursor.position) # quote_char
           THEN Scanned(scan.cursor, NoToken, "TokenizerError")
           ELSE Scanned(Tokenizer_advance(source, scan.cursor),
                        Token("STRING", PyStr(scan.string_chars), c.line, c.column),
                        "none")

OperatorChars == {"+", "-", "*", "/", "=", "!", "<", ">"}
PunctuationChars == {"(", ")", "{", "}", ",", ";"}

tokenize_operator(source, c) ==
    LET ch == CharAt(source, c.position)
        nxt == Tokenizer_peek(source, c)
        one == Tokenizer_advance(source, c)
        two == Tokenizer_advance(source, one)
        Two(type_) == Scanned(two, Token(type_, PyStr(<<ch, nxt>>), c.line, c.column),
                              "none")
        One(type_) == Scanned(one, Token(type_, PyStr(<<ch>>), c.line, c.column), "none")
    IN CASE ch = "=" /\ nxt = "=" -> Two("EQEQ")
         [] ch = "!" /\ nxt = "=" -> Two("NEQ")
         [] ch = "<" /\ nxt = "=" -> Two("LTE")
         [] ch = ">" /\ nxt = "=" -> Two("GTE")
         [] OTHER ->
              CASE ch = "+" -> One("PLUS")
                [] ch = "-" -> One("MINUS")
                [] ch = "*" -> One("STAR")
                [] ch = "/" -> One("SLASH")
                [] ch = "=" -> One("EQ")
                [] ch = "<" -> One("LT")
                [] ch = ">" -> One("GT")
                [] ch = "!" -> One("BANG")
                [] OTHER -> Scanned(c, NoToken, "TokenizerError")

tokenize_punctuation(source, c) ==
    LET ch == CharAt(source, c.position)
        type_ == CASE ch = "(" -> "LPAREN"
                   [] ch = ")" -> "RPAREN"
                   [] ch = "{" -> "LBRACE"
                   [] ch = "}" -> "RBRACE"
                   [] ch = "," -> "COMMA"
                   [] OTHER -> "SEMICOLON"
    IN Scanned(Tokenizer_advance(source, c),
               Token(type_, PyStr(<<ch>>), c.line, c.column), "none")

\* the loop of Tokenizer.tokenize
RECURSIVE TokenizeFrom(_, _, _)
TokenizeFrom(source, c, tokens) ==
    LET ch == CharAt(source, c.position)
        nxt == Tokenizer_peek(source, c)
        scan ==
            CASE ch \in Spaces -> skip_whitespace(source, c)
              [] ch = "/" /\ nxt = "/" -> skip_line_comment(source, c)
              [] ch = "/" /\ nxt = "*" -> skip_block_comment(source, c)
              [] ch \in Letters \cup {"_"} -> tokenize_identifier_or_keyword(source, c)
              [] ch \in Digits -> tokenize_number(source, c)
              [] ch \in {"\"", "'"} -> tokenize_string(source, c)
              [] ch \in OperatorChars -> tokenize_operator(source, c)
              [] ch \in PunctuationChars -> tokenize_punctuation(source, c)
              [] OTHER -> Scanned(c, NoToken, "TokenizerError")
    IN IF ch = NoChar
         THEN [tokens |-> Append(tokens, Token("EOF", PyNone, c.line, c.column)),
               raised |-> "none"]
         ELSE IF scan.raised # "none"
           THEN [tokens |-> tokens, raised |-> scan.raised]
           ELSE TokenizeFrom(source, scan.cursor,
                             IF scan.token = NoToken THEN tokens
                                                     ELSE Append(tokens, scan.token))

\* Tokenizer(source_code).tokenize()
tokenize(source) == TokenizeFrom(source, Cursor(0, 1, 1), <<>>)

\* ---------------------------------------------------------------------
\* core/parser.py: Parser
\* ---------------------------------------------------------------------

\* self.current_token at a position: tokens[position], None past the end
CurrentToken(tokens, position) ==
    IF position < Len(tokens) THEN tokens[position + 1] ELSE NoToken

\* what a parsing method leaves: the node it returns, self.position and the
\* exception it raised ("none" for a normal return)
Parsed(node, position, raised) ==
    [node |-> node, position |-> position, raised |-> raised]

\* Parser.is_operator
is_operator(token_type) ==
    token_type \in {"PLUS", "MINUS", "STAR", "SLASH", "EQEQ"}

\* Parser.get_precedence
get_precedence(token_type) ==
    CASE token_type = "EQEQ" -> 1
      [] token_type \in {"PLUS", "MINUS"} -> 2
      [] token_type \in {"STAR", "SLASH"} -> 3
      [] OTHER -> 0

\* Parser.parse_primary. A NUMBER token is advanced over and then
\* NumberNode, a name no module defines, raises NameError; for every other
\* token the comparison with TokenType.IDENT, which TokenType does not
\* have, raises AttributeError, so no later branch is ever reached.
parse_primary(tokens, position) ==
    LET token == CurrentToken(tokens, position)
    IN IF token = NoToken
         THEN Parsed(PyNone, position, "AttributeError")
         ELSE IF token.type = "NUMBER"
           THEN Parsed(PyNone, position + 1, "NameError")
           ELSE Parsed(PyNone, position, "AttributeError")

\* Parser.parse_expression: precedence climbing. BinaryOpNode(left, op.type,
\* right) lacks the line and column the constructor requires: TypeError.
RECURSIVE parse_expression(_, _, _)
RECURSIVE Climb(_, _, _)
Climb(tokens, left, precedence) ==
    LET op == CurrentToken(tokens, left.position)
        right == parse_expression(tokens, left.position + 1, get_precedence(op.type) + 1)
    IN IF op = NoToken THEN left
       ELSE IF ~is_operator(op.type) THEN left
       ELSE IF get_precedence(op.type) < precedence THEN left
       ELSE IF right.raised # "none" THEN right
       ELSE Parsed(PyNone, right.position, "TypeError")

parse_expression(tokens, position, precedence) ==
    LET left == parse_primary(tokens, position)
    IN IF left.raised # "none" THEN left ELSE Climb(tokens, left, precedence)

\* Parser.expect
expect(tokens, position, token_type) ==
    IF CurrentToken(tokens, position).type = token_type
      THEN Parsed(CurrentToken(tokens, position), position + 1, "none")
      ELSE Parsed(PyNone, position, "HelixSyntaxError")

\* Parser.parse_statement: the four statement parsers it dispatches to are
\* not defined on Parser (AttributeError), ExpressionStatementNode is
\* defined nowhere (NameError)
parse_statement(tokens, position) ==
    LET expr == parse_expression(tokens, position, 0)
        semicolon == expect(tokens, expr.position, "SEMICOLON")
    IN IF CurrentToken(tokens, position).type \in {"IF", "WHILE", "FN", "LET"}
         THEN Parsed(PyNone, position, "AttributeError")
         ELSE IF expr.raised # "none" THEN expr
         ELSE IF semicolon.raised # "none" THEN semicolon
         ELSE Parsed(PyNone, semicolon.position, "NameError")

\* Parser.parse: one statement per turn until current_token is None, then
\* ProgramNode(statements), a name no module defines
RECURSIVE ParseFrom(_, _, _)
ParseFrom(tokens, position, statements) ==
    LET stmt == parse_statement(tokens, position)
    IN IF CurrentToken(tokens, position) = NoToken
         THEN Parsed(PyNone, position, "NameError")
         ELSE IF stmt.raised # "none" THEN stmt
         ELSE ParseFrom(tokens, stmt.position, Append(statements, stmt.node))

parse_tokens(tokens) == ParseFrom(tokens, 0, <<>>)

\* the source texts given to the tokenizer: every text of up to
\* MaxSourceLen characters of Alphabet and some longer ones
Alphabet == {"a", "0", "1", ".", "/", "*", "=", "+", " ", "\n", "\"", "\\", ";"}
ShortSources == UNION {[1..n -> Alphabet] : n \in 0..MaxSourceLen}
LongSources ==
    {<<"1", "+", "2", "*", "3">>, <<"a", "-", "b", "-", "c">>,
     <<"1", "+", "2", "*", "3", ";">>, <<"a", "-", "b", ";", "c", ";">>,
     <<"1", "*", "2", "+", "3">>, <<"a", "=", "=", "b", "+", "c">>,
     <<"\"", "a", "\\", "n", "\"">>, <<"1", ".", "5", "0">>,
     <<"x", " ", "/", "/", "c", "\n", "y">>, <<"l", "e", "t", " ", "x", ";">>}
Sources == ShortSources \cup LongSources

LexInit ==
    /\ lsource = <<>>
    /\ ltokens = <<>>
    /\ llast = [op |-> "init", raised |-> "none", result |-> PyNone]

\* Tokenizer(source).tokenize()
Tokenizer_tokenize(source) ==
    /\ llast.op = "init"
    /\ UNCHANGED nonLexVars
    /\ LET r == tokenize(source)
       IN /\ lsource' = source
          /\ ltokens' = r.tokens
          /\ llast' = [op |-> "tokenize", raised |-> r.raised, result |-> PyNone]

\* Parser(tokens).parse()
Parser_parse ==
    /\ llast.op = "tokenize"
    /\ llast.raised = "none"
    /\ UNCHANGED <<nonLexVars, lsource, ltokens>>
    /\ LET r == parse_tokens(ltokens)
       IN llast' = [op |-> "parse", raised |-> r.raised, result |-> r.node]

\* Parser(tokens).parse_expression()
Parser_parse_expression ==
    /\ llast.op = "tokenize"
    /\ llast.raised = "none"
    /\ UNCHANGED <<nonLexVars, lsource, ltokens>>
    /\ LET r == parse_expression(ltokens, 0, 0)
       IN llast' = [op |-> "parse_expression", raised |-> r.raised,
                    result |-> r.node]

LexNext ==
    \/ \E source \in Sources : Tokenizer_tokenize(source)
    \/ Parser_parse
    \/ Parser_parse_expression

\* ---------------------------------------------------------------------
\* core/interpreter.py: Interpreter.interpret
\* ---------------------------------------------------------------------

AstCallNode(callee, arguments) ==
    [type |-> "CallNode", callee |-> callee, arguments |-> arguments]
AstReturnNode(value) == [type |-> "ReturnNode", value |-> value]

\* node.accept(interpreter) on a new Interpreter, for the expressions of
\* accept and for calls and return statements
RECURSIVE Interpreter_visit(_)
Interpreter_visit(node) ==
    CASE node.type = "CallNode" ->
            \* visit_call: the callee is evaluated; no value is callable
            LET callee == Interpreter_visit(node.callee)
            IN IF callee.raised # "none" THEN callee
               ELSE IF ~Callable(callee.value)
                 THEN Raised("RuntimeError", "Attempted to call non-function")
                 ELSE Raised("AttributeError", "object has no attribute 'call'")
      [] node.type = "ReturnNode" ->
            \* visit_return: raise ReturnException(value)
            LET value == Interpreter_visit(node.value)
            IN IF value.raised # "none" THEN value
               ELSE [raised |-> "ReturnException", message |-> "",
                     value |-> value.value]
      [] OTHER -> accept(node)

\* Interpreter.interpret(node): what its caller gets
interpret(node) ==
    LET run == Interpreter_visit(node)
    IN IF run.raised \in {"RuntimeError", "ReturnException"}
         THEN Returned(NoneValue)
         ELSE run

AstExprs == AstLiterals \cup {AstVariableNode("x")} \cup AstFlatExprs
AstCalls == {AstCallNode(callee, <<>>) :
                callee \in AstLiterals \cup {AstVariableNode("f")}}
AstPrograms == AstExprs \cup AstNestedExprs \cup AstCalls
                   \cup {AstReturnNode(e) : e \in AstExprs}

NoRun == [op |-> "init", node |-> AstLiteralNode(NoneValue), raised |-> "none",
          message |-> "", received |-> "none", value |-> NoneValue]

EntryInit == xlast = NoRun

\* Interpreter().interpret(node)
Interpreter_interpret(node) ==
    /\ xlast.op = "init"
    /\ UNCHANGED nonEntryVars
    /\ LET run == Interpreter_visit(node)
           got == interpret(node)
       IN xlast' = [op |-> "interpret", node |-> node, raised |-> run.raised,
                    message |-> run.message, received |-> got.raised,
                    value |-> got.value]

\* node.accept(Interpreter()): the execution itself, without the entry point
ASTNode_accept(node) ==
    /\ xlast.op = "init"
    /\ UNCHANGED nonEntryVars
    /\ LET run == Interpreter_visit(node)
       IN xlast' = [op |-> "accept", node |-> node, raised |-> run.raised,
                    message |-> run.message, received |-> run.raised,
                    value |-> run.value]

EntryNext ==
    \/ \E node \in AstPrograms : Interpreter_interpret(node)
    \/ \E node \in AstPrograms : ASTNode_accept(node)

\* ---------------------------------------------------------------------
\* core/runtime.py Environment, runtime/runtime_env.py Scope
\* ---------------------------------------------------------------------
MaxObjects == 3
ChainNames == {"a", "b"}
ChainValues == 1..2

\* runtime.py Environment.__init__
RtEnv(parent) == [class |-> "Environment", values |-> <<>>, parent |-> parent]

\* runtime_env.py Scope.__init__
RtScope(parent) == [class |-> "Scope", values |-> <<>>, parent |-> parent]

\* self.values[name] = value / self.symbols[name] = value on object o
StoreOn(os, o, name, value) == [os EXCEPT ![o].values = (name :> value) @@ @]

\* runtime.py Environment.set: an unbound name is passed to the parent and
\* is stored where the chain ends
RECURSIVE Environment_set_on(_, _, _, _)
Environment_set_on(os, o, name, value) ==
    IF name \in DOMAIN os[o].values THEN StoreOn(os, o, name, value)
    ELSE IF os[o].parent # NoneEnv
      THEN Environment_set_on(os, os[o].parent, name, value)
    ELSE StoreOn(os, o, name, value)

\* runtime_env.py Scope.has
RECURSIVE Scope_has(_, _, _)
Scope_has(os, o, name) ==
    IF name \in DOMAIN os[o].values THEN TRUE
    ELSE IF os[o].parent # NoneEnv THEN Scope_has(os, os[o].parent, name)
    ELSE FALSE

\* runtime_env.py Scope.set: the parent is asked only when it has the name
RECURSIVE Scope_set_on(_, _, _, _)
Scope_set_on(os, o, name, value) ==
    IF name \in DOMAIN os[o].values THEN StoreOn(os, o, name, value)
    ELSE IF os[o].parent # NoneEnv /\ Scope_has(os, os[o].parent, name)
      THEN Scope_set_on(os, os[o].parent, name, value)
    ELSE StoreOn(os, o, name, value)

ChainOutcome(op, o, name) == [op |-> op, obj |-> o, name |-> name]
OfClass(class) == {o \in 1..Len(objects) : objects[o].class = class}

\* Runtime.__init__: global_env = Environment(); RuntimeEnv.__init__:
\* global_scope = RtScope()
ChainInit ==
    /\ objects = <<RtEnv(NoneEnv), RtScope(NoneEnv)>>
    /\ clast = ChainOutcome("init", NoneEnv, "")

\* Environment(parent=...): Runtime.push_frame chains the new environment
\* to an existing one
Environment_init(parent) ==
    /\ parent \in OfClass("Environment")
    /\ Len(objects) < MaxObjects
    /\ UNCHANGED nonChainVars
    /\ objects' = Append(objects, RtEnv(parent))
    /\ clast' = ChainOutcome("Environment", Len(objects) + 1, "")

\* RtScope(parent=...): StackFrame.__init__
Scope_init(parent) ==
    /\ parent \in OfClass("Scope")
    /\ Len(objects) < MaxObjects
    /\ UNCHANGED nonChainVars
    /\ objects' = Append(objects, RtScope(parent))
    /\ clast' = ChainOutcome("Scope", Len(objects) + 1, "")

\* Environment.define(name, value)
Environment_define(o, name, value) ==
    /\ o \in OfClass("Environment")
    /\ UNCHANGED nonChainVars
    /\ objects' = StoreOn(objects, o, name, value)
    /\ clast' = ChainOutcome("Environment.define", o, name)

\* Scope.declare(name, value): raises when the scope has the name
Scope_declare(o, name, value) ==
    /\ o \in OfClass("Scope")
    /\ UNCHANGED nonChainVars
    /\ IF name \in DOMAIN objects[o].values
         THEN UNCHANGED objects
         ELSE objects' = StoreOn(objects, o, name, value)
    /\ clast' = ChainOutcome("Scope.declare", o, name)

\* Environment.set(name, value) on object o: Runtime.set_variable calls it
\* on the environment of the current frame or on global_env
Environment_set(o, name, value) ==
    /\ o \in OfClass("Environment")
    /\ UNCHANGED nonChainVars
    /\ objects' = Environment_set_on(objects, o, name, value)
    /\ clast' = ChainOutcome("Environment.set", o, name)

\* Scope.set(name, value) on object o: RuntimeEnv.set_variable calls it on
\* the local scope of the current frame
Scope_set(o, name, value) ==
    /\ o \in OfClass("Scope")
    /\ UNCHANGED nonChainVars
    /\ objects' = Scope_set_on(objects, o, name, value)
    /\ clast' = ChainOutcome("Scope.set", o, name)

ChainNext ==
    \/ \E parent \in 1..MaxObjects : Environment_init(parent)
    \/ \E parent \in 1..MaxObjects : Scope_init(parent)
    \/ \E o \in 1..MaxObjects, n \in ChainNames, v \in ChainValues :
          Environment_define(o, n, v)
    \/ \E o \in 1..MaxObjects, n \in ChainNames, v \in ChainValues :
          Scope_declare(o, n, v)
    \/ \E o \in 1..MaxObjects, n \in ChainNames, v \in ChainValues :
          Environment_set(o, n, v)
    \/ \E o \in 1..MaxObjects, n \in ChainNames, v \in ChainValues :
          Scope_set(o, n, v)

\* ---------------------------------------------------------------------
\* Specifications
\* ---------------------------------------------------------------------


Init == MemInit /\ SymInit /\ InterpInit /\ RunInit /\ ValInit /\ PipeInit
        /\ TypInit /\ OptInit /\ EmitInit /\ LexInit /\ EntryInit /\ ChainInit

SpecMem == Init /\ [][MemNext]_vars
SpecSym == Init /\ [][SymNext]_vars
SpecInterp == Init /\ [][InterpNext]_vars
SpecRun == Init /\ [][RunNext]_vars
SpecVal == Init /\ [][ValNext]_vars
SpecPipe == Init /\ [][PipeNext]_vars
SpecTyp == Init /\ [][TypNext]_vars
SpecOpt == Init /\ [][OptNext]_vars
SpecEmit == Init /\ [][EmitNext]_vars
SpecLex == Init /\ [][LexNext]_vars
SpecEntry == Init /\ [][EntryNext]_vars
SpecChain == Init /\ [][ChainNext]_vars

\* ---------------------------------------------------------------------
\* Properties of the reference-counted heap
\* ---------------------------------------------------------------------
\* Addresses that were handed out and are no longer in the heap.
FreedAddrs == {a \in Addrs : a < next_addr /\ a \notin DOMAIN heap}

RefCountsPositive ==
    \A a \in DOMAIN heap : heap[a].ref_count >= 1

FreedAtMostOnce ==
    \A a \in Addrs : /\ freed_count[a] <= 1
                     /\ a \in DOMAIN heap => freed_count[a] = 0

\* An object leaves the heap only in a dec_ref that takes its count from 1
\* to 0, and a dec_ref of a count of 1 removes the object.
RemovedAtZeroStep ==
    /\ \A a \in DOMAIN heap \ DOMAIN heap' :
          /\ heap[a].ref_count = 1
          /\ a \in mlast'.removed
          /\ mlast'.op \in {"dec_ref", "pop_stack_frame"}
    /\ \A a \in DOMAIN heap :
          (mlast'.op = "dec_ref" /\ heap[a].ref_count = 1 /\ dec_ref(a))
          => (a \notin DOMAIN heap' /\ freed_count'[a] = 1 /\ mlast'.err = "none")
    /\ \A a \in DOMAIN heap :
          (mlast'.op = "dec_ref" /\ heap[a].ref_count > 1 /\ dec_ref(a))
          => (a \in DOMAIN heap' /\ heap'[a].ref_count = heap[a].ref_count - 1)

\* C2: no heap object has a negative reference count, every object in the
\* heap has a count of at least 1, and an object is removed from the heap
\* exactly once, in the dec_ref step that takes its count from 1 to 0.
C2_RefCountInvariant ==
    /\ [](RefCountsPositive /\ FreedAtMostOnce)
    /\ [][RemovedAtZeroStep]_vars

C2_Witness ==
    /\ mlast.op = "dec_ref"
    /\ mlast.removed # {}
    /\ \A a \in mlast.removed : freed_count[a] = 1 /\ a \notin DOMAIN heap
    /\ \E a \in DOMAIN heap : heap[a].ref_count = 2

\* A read, write, inc_ref, dec_ref or deallocate call on address a.
UseOf(a) ==
    \/ mlast'.op = "read" /\ read(a)
    \/ mlast'.op = "write" /\ \E v \in RuntimeValues : write(a, v)
    \/ mlast'.op = "inc_ref" /\ inc_ref(a)
    \/ mlast'.op = "dec_ref" /\ dec_ref(a)
    \/ mlast'.op = "deallocate" /\ deallocate(a)

C3_FreedStep ==
    /\ \A a \in FreedAddrs :
          UseOf(a) => /\ mlast'.err = "MemoryError"
                      /\ heap' = heap
                      /\ used_heap_size' = used_heap_size
    /\ \A a \in DOMAIN heap' \ DOMAIN heap : a \notin FreedAddrs
    /\ \A a \in DOMAIN heap :
          (mlast'.op = "deallocate" /\ deallocate(a) /\ heap[a].ref_count > 0)
          => /\ mlast'.err = "MemoryError"
             /\ heap' = heap
             /\ used_heap_size' = used_heap_size

\* C3: every read, write, inc_ref, dec_ref or deallocate on a freed address
\* raises MemoryError and leaves heap and used_heap_size unchanged; allocate
\* never hands out a freed address again; deallocate on an object whose
\* count is above zero raises MemoryError and changes nothing.
C3_UseAfterFree == [][C3_FreedStep]_vars

\* A write has just failed, and every address that is not live was freed.
C3_Witness ==
    /\ mlast.op = "write"
    /\ mlast.err = "MemoryError"
    /\ FreedAddrs # {}
    /\ DOMAIN heap # {}
    /\ Addrs = FreedAddrs \cup DOMAIN heap

\* C4: after pop_stack_frame pops a frame, every object allocated by a
\* declare_local_variable made in that frame, and never inc_ref'ed, has
\* reached count zero exactly once and is no longer in the heap.
C4_ScopeExitReleasesLocals ==
    mlast.op = "pop_stack_frame" =>
        \A a \in mlast.scope \ inc_applied :
            a \notin DOMAIN heap /\ freed_count[a] = 1

\* ---------------------------------------------------------------------
\* Properties of the symbol table
\* ---------------------------------------------------------------------
Max(S) == CHOOSE m \in S : \A k \in S : k <= m

\* The scopes, by position, that declare n.
Declaring(scs, n) == {i \in 1..Len(scs) : n \in DOMAIN scs[i].symbols}

\* The symbol of the innermost open scope that declares n.
InnermostDeclared(scs, n) ==
    IF Declaring(scs, n) = {} THEN NotFound
    ELSE scs[Max(Declaring(scs, n))].symbols[n]

LookupIsInnermost ==
    /\ \A n \in SymNames : Lookup(scopes, n) = InnermostDeclared(scopes, n)
    /\ slast.op = "lookup" => slast.result = InnermostDeclared(scopes, slast.name)

ShadowingStep ==
    /\ (slast'.op = "insert" /\ slast'.err = "none")
       => /\ Lookup(scopes', slast'.name) = slast'.result
          /\ slast'.result.scope_level = current_level
          /\ \A i \in 1..(Len(scopes) - 1) : scopes'[i] = scopes[i]
    /\ (slast'.op = "exit_scope" /\ slast'.err = "none")
       => \A n \in SymNames :
             Lookup(scopes', n) = InnermostDeclared(Front(scopes), n)

\* C8: lookup(name) returns the symbol inserted in the innermost open scope
\* that declares name, or not-found when none does; an inner symbol hides
\* an outer one until exit_scope, after which the outer one is returned
\* again, unchanged.
C8_LookupShadowing ==
    /\ []LookupIsInnermost
    /\ [][ShadowingStep]_vars

C8_Witness ==
    /\ Len(scopes) = 2
    /\ slast.op = "lookup"
    /\ slast.name \in DOMAIN scopes[1].symbols
    /\ slast.name \in DOMAIN scopes[2].symbols
    /\ scopes[1].symbols[slast.name].type # scopes[2].symbols[slast.name].type
    /\ slast.result = scopes[2].symbols[slast.name]

InsertFailed == slast'.op = "insert" /\ slast'.err # "none"

FailedInsertChangesNothing ==
    InsertFailed => (scopes' = scopes /\ current_level' = current_level)

\* C9 as stated: insert fails if and only if the name is already declared
\* in the current (innermost) scope, and a failed insert changes nothing.
C9_InsertFailsIffDeclaredInCurrent ==
    [][ /\ slast'.op = "insert" =>
              (slast'.err # "none" <=>
                  (scopes # <<>> /\ slast'.name \in DOMAIN Last(scopes).symbols))
        /\ FailedInsertChangesNothing ]_vars

\* C9 amended: while at least one scope is open, insert fails if and only
\* if the name is already declared in the current (innermost) scope; with no
\* scope open (the global scope was exited) insert always fails; a failed
\* insert leaves every scope's mapping and the scope depth unchanged.
C9_InsertFailsIffDeclaredOrNoScope ==
    [][ /\ (slast'.op = "insert" /\ scopes # <<>>) =>
              (slast'.err # "none" <=> slast'.name \in DOMAIN Last(scopes).symbols)
        /\ (slast'.op = "insert" /\ scopes = <<>>) => slast'.err # "none"
        /\ FailedInsertChangesNothing ]_vars

C9_Witness ==
    /\ Len(scopes) = 2
    /\ slast.op = "insert"
    /\ slast.err = "none"
    /\ slast.name \in DOMAIN scopes[1].symbols
    /\ slast.name \in DOMAIN scopes[2].symbols

\* ---------------------------------------------------------------------
\* Interpreter properties
\* ---------------------------------------------------------------------

\* C1: whenever visit_block, visit_for or Function.call has been left, by
\* normal completion, by a return or by an error, Interpreter.env is the
\* Environment it was when that execution began.
C1_EnvRestoredOnExit ==
    ilast.kind \in {"block", "for", "call"} => ilast.after = ilast.before

\* The environments of the chain that starts at e.
RECURSIVE Chain(_, _)
Chain(es, e) ==
    IF e = NoneEnv THEN {} ELSE {e} \cup Chain(es, es[e].parent)

\* The environment in which a lookup from e finds n, NoneEnv when none does.
RECURSIVE Binder(_, _, _)
Binder(es, e, n) ==
    IF e = NoneEnv THEN NoneEnv
    ELSE IF n \in DOMAIN es[e].values THEN e
    ELSE Binder(es, es[e].parent, n)

InCall == \E i \in 1..Len(ctrl) : ctrl[i].kind = "call"
InnermostCall == ctrl[Max({i \in 1..Len(ctrl) : ctrl[i].kind = "call"})]

\* Environments created for the running call: its own and those of its body.
OfCall(c) == {e \in 1..Len(envs) : c.callenv \in Chain(envs, e)}
\* Environments the caller sees that the definition site does not.
CallerOnly(c) == Chain(envs, c.entry) \ Chain(envs, funcs[c.fn].closure)

LexicalResolution(c) ==
    /\ envs[c.callenv].parent = funcs[c.fn].closure
    /\ c.callenv \in Chain(envs, env)
    /\ \A n \in Names \cup {ParamName} :
           LET b == Binder(envs, env, n)
           IN  b # NoneEnv =>
                   /\ b \in OfCall(c) \cup Chain(envs, funcs[c.fn].closure)
                   /\ b \notin CallerOnly(c)

OtherCallsInvisible(c) ==
    \A h \in call_log :
        h.fn = c.fn /\ h.env # c.callenv => h.env \notin Chain(envs, env)

OneFreshEnvironment ==
    ctrl = <<>> /\ ctrl' # <<>> /\ ctrl'[1].kind = "call" =>
    \A f \in 1..MaxFuncs, k \in ArgCounts :
        Function_call(f, k) =>
            LET made == (Len(envs) + 1)..Len(envs')
                c == ctrl'[1]
            IN  /\ c.callenv \in made
                /\ {e \in made : envs'[e].parent = funcs[f].closure /\
                                 DOMAIN envs'[e].values = {ParamName}} = {c.callenv}
                /\ \A h \in call_log : h.env # c.callenv

ArityErrorNamesCounts(params, args) ==
    /\ rlast'.err = "RuntimeError"
    /\ rlast'.expected = Len(params)
    /\ rlast'.got = Len(args)

ArityMismatchStep ==
    /\ rlast'.op \in {"push_frame", "call_function"} =>
           \A func \in RtFunctions, args \in ArgLists :
               /\ Len(args) # Len(func.params)
               /\ push_frame(func, args) \/ call_function(func, args)
               => /\ ArityErrorNamesCounts(func.params, args)
                  /\ UNCHANGED <<call_stack, global_env>>
    /\ rlast'.op = "RuntimeEnv.call_function" =>
           \A fn \in DOMAIN example_functions, args \in ArgLists :
               /\ Len(args) # Len(example_functions[fn])
               /\ RuntimeEnv_call_function(fn, args)
               => /\ ArityErrorNamesCounts(example_functions[fn], args)
                  /\ UNCHANGED env_call_stack

\* C6: a call whose argument count differs from the parameter count raises
\* a RuntimeError carrying the expected and the actual count, and leaves the
\* call stack and the environments as they were: no frame is pushed and no
\* parameter is bound.
C6_ArityMismatch == [][ArityMismatchStep]_vars

C6_Witness ==
    /\ rlast.op = "push_frame"
    /\ rlast.err = "RuntimeError"
    /\ rlast.expected = 2
    /\ rlast.got = 1
    /\ call_stack # <<>>
    /\ Len(env_call_stack) > 1

\* C7: no step pushes a call frame beyond the configured max_stack_depth:
\* whenever the call stack grows, its new depth is at most that maximum.
C7_DepthWithinMaximum ==
    [][Len(call_stack') > Len(call_stack) => Len(call_stack') <= max_stack_depth]_vars

\* ---------------------------------------------------------------------
\* Validator properties
\* ---------------------------------------------------------------------

\* C10: no statement makes validate raise, and every statement that breaks
\* a rule appends at least one error to Validator.errors.
C10_CollectsAllErrors ==
    /\ vlast.raised = "none"
    /\ vlast.violated => vlast.appended >= 1

\* C11: a return validated while no function declaration is being
\* validated (no "function" among the constructs in progress) records at
\* least one error.
C11_ReturnOutsideFunctionRejected ==
    vlast.op = "return" /\ (\A i \in 1..Len(vctl) : vctl[i] # "function")
        => vlast.appended >= 1

\* ---------------------------------------------------------------------
\* Properties of the file pipeline
\* ---------------------------------------------------------------------

\* C12: when run_file runs a source file, IR building or execution is
\* started only after a Validator pass over the program has been made in
\* that run and, for a program that is not well typed, never.
ValidatedBefore(stage) ==
    \E i \in 1..Len(plog) : \E j \in 1..Len(plog) :
        i < j /\ plog[i] = "Validator.validate" /\ plog[j] = stage

C12_LaterStagesNeedCleanValidation ==
    (pfile.ext = ".hlx" /\ pc \in LaterStages)
        => (ValidatedBefore(pc) /\ pfile.program = "well_typed")

\* ---------------------------------------------------------------------
\* Properties of the type system
\* ---------------------------------------------------------------------

\* C13: IntType().unify(FloatType()) returns Float and
\* BoolType().unify(IntType()) returns None.
C13_NumericPromotion ==
    tlast.op = "unify" =>
        /\ (tlast.a = IntType /\ tlast.b = FloatType) => tlast.type = FloatType
        /\ (tlast.a = BoolType /\ tlast.b = IntType) => tlast.type = NoneType

\* every field other declares is in self with a subtype of its type
WidthRule(self, other) ==
    \A key \in DOMAIN other.fields :
        /\ key \in DOMAIN self.fields
        /\ is_subtype_of(self.fields[key], other.fields[key])

AB == [a |-> IntType, b |-> IntType]
OnlyA == [a |-> IntType]

StructPair ==
    /\ tlast.op = "is_subtype_of"
    /\ tlast.a.kind = "StructType"
    /\ tlast.b.kind = "StructType"

\* C14 as stated: for any two struct types A and B, A.is_subtype_of(B)
\* holds exactly when every field B declares is present in A with a subtype
\* of B's field type.
C14_WidthSubtypingAnyStructs ==
    StructPair => (tlast.holds <=> WidthRule(tlast.a, tlast.b))

\* C14: for two struct types A and B, A.is_subtype_of(B) holds exactly when
\* A and B have the same name and every field B declares is present in A
\* with a subtype of B's field type; so P{a: Int, b: Int} is a subtype of
\* P{a: Int} and P{a: Int} is not a subtype of P{a: Int, b: Int}.
C14_WidthSubtypingSameName ==
    StructPair =>
        /\ tlast.holds <=>
              (tlast.a.name = tlast.b.name /\ WidthRule(tlast.a, tlast.b))
        /\ (tlast.a = StructType("P", AB) /\ tlast.b = StructType("P", OnlyA))
              => tlast.holds
        /\ (tlast.a = StructType("P", OnlyA) /\ tlast.b = StructType("P", AB))
              => ~tlast.holds

C14_Witness ==
    /\ StructPair
    /\ tlast.a = StructType("P", AB)
    /\ tlast.b = StructType("P", OnlyA)
    /\ tlast.holds

\* C25: whenever unify(A, B) returns a type T, A is a subtype of T and B
\* is a subtype of T.
C25_UnifyIsUpperBound ==
    (tlast.op = "unify" /\ tlast.type # NoneType) =>
        /\ is_subtype_of(tlast.a, tlast.type)
        /\ is_subtype_of(tlast.b, tlast.type)

\* ---------------------------------------------------------------------
\* Properties of the optimizers
\* ---------------------------------------------------------------------

\* a binary-operator tree over constants, as IRBuilder builds it
RECURSIVE ConstantTree(_)
ConstantTree(node) ==
    \/ node.node_type = "CONSTANT"
    \/ /\ node.node_type = "EXPRESSION"
       /\ ConstantTree(node.left)
       /\ ConstantTree(node.right)

\* the value of a constant tree, EvalRaised when a division by zero is in it
RECURSIVE TreeValue(_)
TreeValue(node) ==
    IF node.node_type = "CONSTANT"
      THEN node.value
      ELSE LET l == TreeValue(node.left)
               r == TreeValue(node.right)
           IN IF l = EvalRaised \/ r = EvalRaised
                THEN EvalRaised
                ELSE IR_evaluate_binary_op(node.operator, l, r)

FirstPass(op) == olast.op = op /\ oplog = <<op>>

TwoPlusThreeTimesFour ==
    BinaryOpNode("+", ConstantNode(IntVal(2), "int"),
                 BinaryOpNode("*", ConstantNode(IntVal(3), "int"),
                                   ConstantNode(IntVal(4), "int")))

\* C15: constant_folding_pass turns every binary-operator tree over
\* constants, of any depth and without a division by zero, into one Constant
\* node that carries the value of the tree; 2 + 3 * 4 becomes the constant 14.
C15_FoldsWholeConstantTree ==
    (/\ FirstPass("constant_folding_pass")
     /\ ConstantTree(olast.before)
     /\ TreeValue(olast.before) # EvalRaised)
        => /\ olast.after.node_type = "CONSTANT"
           /\ olast.after.value = TreeValue(olast.before)
           /\ olast.before = TwoPlusThreeTimesFour
                 => olast.after.value = IntVal(14)

\* C16: a second constant-folding run returns a tree equal to what the
\* first run returned, in child lists and operand fields, for the IR pass
\* and for the AST pass.
C16_FoldingIdempotent ==
    /\ (olast.op = "constant_folding_pass"
           /\ oplog = <<"constant_folding_pass", "constant_folding_pass">>)
          => olast.after = olast.before
    /\ (olast.op = "constant_folding"
           /\ oplog = <<"constant_folding", "constant_folding">>)
          => olast.after = olast.before

DivisionByConstantZero(node) ==
    /\ node.type = "BinaryOpNode"
    /\ node.operator = Str("/")
    /\ node.left.type = "LiteralNode"
    /\ node.right = AstLiteralNode(IntVal(0))

\* C17: c / 0 with a constant c is, after folding, still the binary
\* operation with its two operands, and executing it raises the RuntimeError
\* for a division by zero.
C17_DivisionByZeroLeftToRuntime ==
    /\ (FirstPass("constant_folding") /\ DivisionByConstantZero(olast.before))
          => olast.after = olast.before
    /\ (/\ olast.op = "visit_binary_op"
        /\ oplog = <<"constant_folding", "visit_binary_op">>
        /\ olast.before.type = "BinaryOpNode"
        /\ olast.before.right = AstLiteralNode(IntVal(0)))
          => (olast.after.raised = "RuntimeError"
              /\ olast.after.message = "Division by zero")

\* no child list of a Block or Function in the tree has a statement after
\* a return
RECURSIVE NoDeadCode(_)
NoDeadCode(node) ==
    /\ node.node_type \in {"BLOCK", "FUNCTION"}
          => \A i \in 1..Len(node.children) :
                node.children[i].node_type = "RETURN" => i = Len(node.children)
    /\ \A i \in 1..Len(node.children) : NoDeadCode(node.children[i])

\* C18: after dead_code_elimination_pass no Block or Function body at any
\* depth of the tree has a statement after a return.
C18_NoStatementAfterReturn ==
    olast.op = "dead_code_elimination_pass" => NoDeadCode(olast.after)

\* C19: optimize (folding, then dead-code elimination) replaces an if whose
\* condition folds to a Bool constant by the selected branch: no if is left.
C19_ConstantIfReplaced ==
    (/\ FirstPass("optimize")
     /\ olast.before.node_type = "IF"
     /\ constant_folding_pass(olast.before.condition).node_type = "CONSTANT")
        => olast.after.node_type # "IF"

\* ---------------------------------------------------------------------
\* Properties of the bytecode emitter
\* ---------------------------------------------------------------------

BinaryInstrs ==
    {"ADD", "SUB", "MUL", "DIV", "MOD", "EQ", "NEQ", "LT", "LTE", "GT", "GTE",
     "AND", "OR"}

\* the change of the operand stack depth an instruction makes
StackEffect(instr) ==
    CASE instr.op \in {"PUSH_CONST", "LOAD"} -> 1
      [] instr.op \in BinaryInstrs -> -1
      [] instr.op \in {"STORE", "JUMP_IF_FALSE", "RETURN"} -> -1
      [] instr.op = "CALL" -> 1 - instr.n
      [] OTHER -> 0

RECURSIVE Depth(_, _)
Depth(code, i) == IF i = 0 THEN 0 ELSE Depth(code, i - 1) + StackEffect(code[i])

\* C20: the instructions compile emits for an expression node leave one
\* more value on the operand stack, those for a statement node leave the
\* depth unchanged, and every node of either kind is emitted.
C20_StackDiscipline ==
    elast.op = "compile" =>
        /\ elast.raised = "none"
        /\ Depth(bytecode, Len(bytecode))
              = (IF emit_root.role = "expression" THEN 1 ELSE 0)

\* ---------------------------------------------------------------------
\* Properties of the tokenizer and the parser
\* ---------------------------------------------------------------------

\* tokens[1..n] are operands joined by binary operators, then end of input
OperandSequence(tokens) ==
    /\ Len(tokens) >= 2
    /\ Len(tokens) % 2 = 0
    /\ tokens[Len(tokens)].type = "EOF"
    /\ \A i \in 1..(Len(tokens) - 1) :
          IF i % 2 = 1 THEN tokens[i].type \in {"NUMBER", "IDENTIFIER"}
                       ELSE is_operator(tokens[i].type)

\* the position of the operator of tokens[lo..hi] that binds loosest, the
\* rightmost one among equals: the root of the reference tree
RECURSIVE RootOperator(_, _, _, _)
RootOperator(tokens, i, hi, best) ==
    IF i > hi THEN best
    ELSE RootOperator(tokens, i + 2, hi,
            IF best = 0 THEN i
            ELSE IF get_precedence(tokens[i].type) <= get_precedence(tokens[best].type)
                   THEN i ELSE best)

\* the tree of the reference grammar for the operand sequence tokens[lo..hi]
RECURSIVE ReferenceTree(_, _, _)
ReferenceTree(tokens, lo, hi) ==
    IF lo = hi
      THEN IF tokens[lo].type = "NUMBER"
             THEN [kind |-> "Number", value |-> tokens[lo].value]
             ELSE [kind |-> "Variable", name |-> tokens[lo].value]
      ELSE LET root == RootOperator(tokens, lo + 1, hi - 1, 0)
           IN [kind |-> "BinaryOp",
               left |-> ReferenceTree(tokens, lo, root - 1),
               operator |-> tokens[root].type,
               right |-> ReferenceTree(tokens, root + 1, hi)]

\* C21: for every sequence of operands joined by binary operators,
\* parse_expression returns the tree of the reference grammar: higher
\* precedence binds tighter, equal precedence groups to the left.
C21_PrecedenceAndLeftAssociativity ==
    (llast.op = "parse_expression" /\ OperandSequence(ltokens)) =>
        /\ llast.raised = "none"
        /\ llast.result = ReferenceTree(ltokens, 1, Len(ltokens) - 1)

\* the number of statements `operands joined by operators ;` that tokens[i..]
\* consists of up to the end-of-input token, -1 if it is not such a sequence
RECURSIVE StatementCount(_, _, _)
StatementCount(tokens, i, count) ==
    IF i > Len(tokens) THEN -1
    ELSE IF tokens[i].type = "EOF" THEN (IF i = Len(tokens) THEN count ELSE -1)
    ELSE IF tokens[i].type \notin {"NUMBER", "IDENTIFIER"} THEN -1
    ELSE IF i + 1 > Len(tokens) THEN -1
    ELSE IF tokens[i + 1].type = "SEMICOLON" THEN StatementCount(tokens, i + 2, count + 1)
    ELSE IF is_operator(tokens[i + 1].type) THEN StatementCount(tokens, i + 2, count)
    ELSE -1

\* C22: for the tokens of an empty source parse returns a program with
\* no statement, and for the tokens of well-formed statements it returns one
\* node per statement, without raising.
C22_ParseStopsAtEndOfInput ==
    (llast.op = "parse" /\ StatementCount(ltokens, 1, 0) >= 0) =>
        /\ llast.raised = "none"
        /\ llast.result.kind = "Program"
        /\ Len(llast.result.statements) = StatementCount(ltokens, 1, 0)

\* str(token.value): the characters of a token
Lexeme(token) ==
    CASE token.value.kind = "str" -> token.value.chars
      [] token.value.kind = "int" -> token.value.digits
      [] token.value.kind = "float" ->
            token.value.whole \o <<".">> \o token.value.frac
      [] OTHER -> <<>>

RECURSIVE Lexemes(_, _)
Lexemes(tokens, i) ==
    IF i > Len(tokens) THEN <<>>
    ELSE IF tokens[i].type = "EOF" THEN Lexemes(tokens, i + 1)
    ELSE Lexeme(tokens[i]) \o Lexemes(tokens, i + 1)

\* the characters of source[i..] that are neither whitespace nor part of a
\* comment; mode is "code", "line" or "block" inside a comment, or the quote
\* character inside a string literal
RECURSIVE Significant(_, _, _)
Significant(source, i, mode) ==
    LET ch == source[i]
        nxt == IF i < Len(source) THEN source[i + 1] ELSE NoChar
    IN IF i > Len(source) THEN <<>>
       ELSE CASE mode = "line" ->
                    Significant(source, i + 1, IF ch = "\n" THEN "code" ELSE "line")
              [] mode = "block" ->
                    IF ch = "*" /\ nxt = "/" THEN Significant(source, i + 2, "code")
                    ELSE Significant(source, i + 1, "block")
              [] mode = "code" ->
                    IF ch \in Spaces THEN Significant(source, i + 1, "code")
                    ELSE IF ch = "/" /\ nxt = "/" THEN Significant(source, i + 2, "line")
                    ELSE IF ch = "/" /\ nxt = "*" THEN Significant(source, i + 2, "block")
                    ELSE IF ch \in {"\"", "'"}
                      THEN <<ch>> \o Significant(source, i + 1, ch)
                    ELSE <<ch>> \o Significant(source, i + 1, "code")
              [] OTHER ->
                    IF ch = "\\" /\ nxt # NoChar
                      THEN <<ch, nxt>> \o Significant(source, i + 2, mode)
                    ELSE <<ch>> \o Significant(source, i + 1,
                                               IF ch = mode THEN "code" ELSE mode)

\* C23: for every source tokenize accepts, the lexemes of its tokens in
\* order, the end-of-input token excluded, are the characters of the source
\* without whitespace and comments.
C23_LexemeRoundTrip ==
    (llast.op = "tokenize" /\ llast.raised = "none") =>
        Lexemes(ltokens, 1) = Significant(lsource, 1, "code")

\* ---------------------------------------------------------------------
\* Properties of Interpreter.interpret
\* ---------------------------------------------------------------------

\* C24: whenever the execution interpret starts raises a RuntimeError,
\* the caller of interpret receives that RuntimeError; interpret never
\* turns it into a normal result.
C24_RuntimeErrorsReachCaller ==
    (xlast.op = "interpret" /\ xlast.raised = "RuntimeError") =>
        xlast.received = "RuntimeError"

\* the object a pass was given, as the pass leaves it: the passes return
\* the node they were given unless the root itself folds to a constant
InputAfter(op, node) ==
    CASE op = "constant_folding_pass" -> Fold(node).obj
      [] op = "dead_code_elimination_pass" -> dead_code_elimination_pass(node)
      [] op = "optimize" ->
            IF Fold(node).same THEN dead_code_elimination_pass(Fold(node).ret)
                               ELSE Fold(node).obj
      [] OTHER -> node

\* C26: optimize and each of its passes leave the tree they were given
\* unchanged: every node of the input keeps its child list and its operand
\* fields.
C26_PassesLeaveInputUnchanged ==
    olast.op \in {"constant_folding_pass", "dead_code_elimination_pass", "optimize"}
        => InputAfter(olast.op, olast.before) = olast.before

\* ---------------------------------------------------------------------
\* Properties of the Validator's scope handling
\* ---------------------------------------------------------------------

\* C27: whenever the validation of a program, block or function
\* declaration finishes, by normal return or by an exception, the scope
\* depth is what it was when the validation of that node began; a function's
\* name is visible from inside its body.
C27_ScopeStackInLockStep ==
    [][/\ vlast'.raised # "none" => Len(scopes') = Len(scopes) - Len(vctl)
       /\ vlast'.op = "end" => Len(scopes') = Len(scopes) - 1
       /\ (vlast'.op = "function_decl" /\ vlast'.raised = "none") =>
             \E n \in DeclaredFunctions : Lookup(scopes', n) # NotFound]_vars

\* C28: in the instruction sequence one compile call leaves behind, no
\* label name stands in two LABEL instructions and every JUMP and
\* JUMP_IF_FALSE operand names a LABEL of the same sequence
LabelName(instr) == <<instr.arg, instr.n>>
LabelsOf(code) == {i \in 1..Len(code) : code[i].op = "LABEL"}
JumpsOf(code) == {i \in 1..Len(code) : code[i].op \in {"JUMP", "JUMP_IF_FALSE"}}
LabelsResolve(code) ==
    /\ \A i, j \in LabelsOf(code) :
          LabelName(code[i]) = LabelName(code[j]) => i = j
    /\ \A i \in JumpsOf(code) :
          \E j \in LabelsOf(code) : LabelName(code[j]) = LabelName(code[i])
C28_LabelsUniqueAndResolvable ==
    /\ elast.op = "compile" => LabelsResolve(bytecode)
    /\ elast.op = "Compiler_compile" => LabelsResolve(instructions)

\* ---------------------------------------------------------------------
\* Properties of the environment chains
\* ---------------------------------------------------------------------
\* the innermost object of the chain from o that binds the name, or None
RECURSIVE ChainBinder(_, _, _)
ChainBinder(os, o, name) ==
    IF name \in DOMAIN os[o].values THEN o
    ELSE IF os[o].parent # NoneEnv THEN ChainBinder(os, os[o].parent, name)
    ELSE NoneEnv

\* the object a write on o has to touch: the innermost binder, or o itself
WrittenObject(os, o, name) ==
    IF ChainBinder(os, o, name) # NoneEnv THEN ChainBinder(os, o, name) ELSE o

\* C29: a set on an environment touches exactly one binding: the innermost
\* binding of the name in the chain, or, when no environment of the chain
\* binds it, a new binding in the environment set was called on; every
\* other environment is left as it was
C29_SetTouchesOneBinding ==
    [][clast'.op \in {"Environment.set", "Scope.set"} =>
          LET t == WrittenObject(objects, clast'.obj, clast'.name)
          IN /\ Len(objects') = Len(objects)
             /\ \A o \in 1..Len(objects) : o # t => objects'[o] = objects[o]
             /\ clast'.name \in DOMAIN objects'[t].values
             /\ objects'[t].parent = objects[t].parent
             /\ \A n \in DOMAIN objects[t].values \ {clast'.name} :
                   /\ n \in DOMAIN objects'[t].values
                   /\ objects'[t].values[n] = objects[t].values[n]
             /\ DOMAIN objects'[t].values =
                   DOMAIN objects[t].values \cup {clast'.name}]_vars

\* ---------------------------------------------------------------------
\* Heap accounting
\* ---------------------------------------------------------------------
\* the sum of the sizes of the values the heap holds
RECURSIVE HeapBytes(_, _)
HeapBytes(h, as) ==
    IF as = {} THEN 0
    ELSE LET a == CHOOSE x \in as : TRUE
         IN size_in_bytes(h[a].value) + HeapBytes(h, as \ {a})

\* C30: after every MemoryManager call used_heap_size is the sum of the
\* sizes of the values in the heap and does not exceed heap_size, and a
\* call refused for want of heap space (MemoryError from an allocation)
\* changes nothing
C30_HeapAccountingWithinLimit ==
    [][/\ used_heap_size' = HeapBytes(heap', DOMAIN heap')
       /\ used_heap_size' <= HeapSize
       /\ (mlast'.op \in {"allocate", "declare_local_variable"}
              /\ mlast'.err = "MemoryError") =>
             UNCHANGED <<heap, next_addr, used_heap_size, stack_frames,
                         current_frame_vars>>]_vars

====
